---------------------------- MODULE Spec2Model ----------------------------
(***************************************************************************)
(* Model of the Nitrate python API (src/source/api.py): the caching level, *)
(* the lazy field accessors, the Mutable dirty flag and the Container set  *)
(* reconciliation and the per-class instance dictionaries.  Ten            *)
(* specifications share the module:                                        *)
(*   SpecContainer  one relation container and the store's member set      *)
(*   SpecEntity     one entity constructed by id and the store's record    *)
(*   SpecRegistry   two clients constructing instances of one class        *)
(*   SpecEquality   two instances of one class, compared and hashed        *)
(*   SpecCreate     the construction of a new record from arguments        *)
(*   SpecOwner      a plan, run, case or case run and its containers       *)
(*   SpecLevel      setCacheLevel with an argument or from the environment *)
(*   SpecAssign     a field that holds an entity, compared and assigned    *)
(*   SpecBugs       the bug list of a test case or a case run              *)
(*   SpecEnumeration  the values of the six enumeration classes            *)
(* Every remote call may return or raise a fault; a handler is one action. *)
(***************************************************************************)
EXTENDS Integers, Sequences, FiniteSets, TLC

VARIABLES
    cache,          \* _cache, the process-wide caching level
    ctype,          \* class of the container
    current,        \* Container._current
    original,       \* Container._original
    cmodified,      \* Container._modified
    server,         \* member set the store holds for the relation
    calls,          \* remote calls issued by the last handler, in order
    raised,         \* the last handler raised
    lastOp,         \* the last container handler
    base,           \* history: member set at the last load or reconciliation
    bufferedOnly,   \* history: no add/remove ran at level NONE since then
    p5,             \* history: progress through the P5 scenario of the spec
    etype,          \* class of the entity
    fields,         \* the entity's attributes: declared field -> stored value
    modified,       \* the entity's _modified
    store,          \* the record the store holds for the entity
    wfields,        \* the read-write fields this client assigns to
    result,         \* value returned by the last field read
    fetched,        \* history: a fetch of the entity has succeeded
    eop,            \* the last entity handler, with the field and value written
    rtype,          \* class of the entities the clients look up
    rfield,         \* the field of the class the clients read and assign
    heap,           \* the live instances: <<[id, fields, modified], ...>>
    registry,       \* the class's cache dictionary: id -> instance, 0 when absent
    refs,           \* the instance each client holds, 0 when none
    rstore,         \* the records the store holds for the class: id -> record
    pc,             \* per client: "idle", or "bulk" inside the bulk call
    given,          \* per client: the id its construction was given, 0 when none
    bulkCalls,      \* history: bulk calls that have returned a result
    interleaved,    \* history: a client acted while another was in the bulk call
    levelChanged,   \* history: setCacheLevel has changed the level since the start
    rop,            \* the last registry handler
    rresult,        \* value returned by the last field read of a client
    pair,           \* two instances of one class and their last comparison
    maker,          \* the last construction without id and what came of it
    otype,          \* class of the owner of containers
    owner,          \* the owner: whether _get has run, its _modified
    owned,          \* the owner's containers: _current, _original, _modified
    ostore,         \* what the store holds for each relation of the owner
    oop,            \* the last operation on the owner and the update() calls it made
    asg,            \* a field that holds an entity, and its last assignment
    env,            \* the environment variable CACHE: whether set, and its text
    lvl,            \* the last call of setCacheLevel: its argument, the level before
    btype,          \* class of the owner of the bug list
    bugs,           \* the bug list: whether loaded, Bugs._current, Bugs._modified
    bstore,         \* the bugs the store holds attached to the owner
    bop,            \* the last operation on the bug list
    enm             \* the last construction of an enumeration value

cvars == <<ctype, current, original, cmodified, server, lastOp, base,
           bufferedOnly, p5>>

evars == <<etype, fields, modified, store, wfields, result, fetched, eop>>

rvars == <<rtype, rfield, heap, registry, refs, rstore, pc, given, bulkCalls,
           interleaved, levelChanged, rop, rresult>>

\* What the container, entity and dictionary handlers leave alone
pvars == <<otype, owner, owned, ostore, oop>>

\* What the handlers of the other parts leave alone
lvars == <<env, lvl>>

bvars == <<btype, bugs, bstore, bop>>

xvars == <<asg, lvars, bvars, enm>>

ovars == <<pair, maker, pvars, xvars>>

vars == <<cache, calls, raised, cvars, evars, rvars, ovars>>

-----------------------------------------------------------------------------
(* Bounds *)

NumItems == 3
NumValues == 2
MaxWriteFields == 1
NumIds == 2
NumLookupIds == 1
NumClients == 2
MaxBulk == 2
NumMembers == 1
MaxEnvLen == 2
NumBugs == 2
Beyond == 1

-----------------------------------------------------------------------------
(* Caching levels *)

CACHE_NONE == 0
CACHE_CHANGES == 1
CACHE_OBJECTS == 2
CACHE_ALL == 3

Levels == CACHE_NONE .. CACHE_ALL

\* The sentinel, for scalar fields
NitrateNone == 0

\* The sentinel where a member set is expected: no member is NitrateNone
Unloaded == {NitrateNone}

Items == 1 .. NumItems

TagTypes == {"PlanTags", "RunTags", "CaseTags"}
ContainerTypes == TagTypes \cup {"TestPlans", "TestCases"}

Call(m, items, ok) == [m |-> m, items |-> items, ok |-> ok]

Range(s) == {s[i] : i \in 1 .. Len(s)}

\* The orders in which a set may be iterated
Perms(S) == {f \in [1 .. Cardinality(S) -> S] : \A x \in S : \E i \in DOMAIN f : f[i] = x}

-----------------------------------------------------------------------------
(* Container *)

OriginalUnset(cur) == Unloaded
\* "self._original = set(self._current)" at the end of every _get
OriginalOf(cur) == cur

\* _get of the five container classes: one get-relation call; TestCases
\* falls back to a second call when the first faults
Container_get(type, srv, ok1, ok2) ==
    IF ok1
    THEN [calls |-> <<Call("get", {}, TRUE)>>, raised |-> FALSE,
          current |-> srv, original |-> OriginalOf(srv)]
    ELSE IF type = "TestCases"
    THEN IF ok2
         THEN [calls |-> <<Call("get", {}, FALSE), Call("get_ids", {}, TRUE)>>,
               raised |-> FALSE, current |-> srv, original |-> OriginalOf(srv)]
         ELSE [calls |-> <<Call("get", {}, FALSE), Call("get_ids", {}, FALSE)>>,
               raised |-> TRUE, current |-> Unloaded, original |-> Unloaded]
    ELSE [calls |-> <<Call("get", {}, FALSE)>>, raised |-> TRUE,
          current |-> Unloaded, original |-> Unloaded]

Container_itemsReload(ok1, ok2) == Container_get(ctype, server, ok1, ok2)
\* The _items property: load unless already loaded
Container_items(ok1, ok2) ==
    IF current = Unloaded
    THEN Container_get(ctype, server, ok1, ok2)
    ELSE [calls |-> <<>>, raised |-> FALSE, current |-> current, original |-> original]

\* Outcomes of the remote calls of one _items
GetOutcomes ==
    IF current # Unloaded THEN {<<TRUE, TRUE>>}
    ELSE IF ctype = "TestCases" THEN {<<TRUE, TRUE>>, <<FALSE, TRUE>>, <<FALSE, FALSE>>}
    ELSE {<<TRUE, TRUE>>, <<FALSE, FALSE>>}

AddedAll(cur, orig) == cur
Added(cur, orig) == cur \ orig

RemovedAll(cur, orig) == orig
Removed(cur, orig) == orig \ cur

\* _add of every class: one remote call carrying all the members
AddCalls(added, ok) ==
    IF added = {} THEN <<>> ELSE <<Call("add", added, ok)>>

RemoveCallsPerMember(type, order, nOk) ==
    [i \in 1 .. (IF nOk < Len(order) THEN nOk + 1 ELSE nOk) |->
        Call("remove", {order[i]}, i <= nOk)]
\* _remove: the tag classes issue one call carrying all the members, TestPlans
\* and TestCases one unlink call per member, stopping at the first fault
RemoveCalls(type, order, nOk) ==
    IF order = <<>> THEN <<>>
    ELSE IF type \in TagTypes
    THEN <<Call("remove", Range(order), nOk = Len(order))>>
    ELSE [i \in 1 .. (IF nOk < Len(order) THEN nOk + 1 ELSE nOk) |->
            Call("remove", {order[i]}, i <= nOk)]

RemoveFirst(ac, rc) == rc \o ac
\* Container._update issues the add before the remove
UpdateOrder(ac, rc) == ac \o rc

\* What the store holds after the calls of one _update
ServerAfter(srv, cs) ==
    LET adds == UNION {cs[i].items : i \in {j \in DOMAIN cs : cs[j].m = "add" /\ cs[j].ok}}
        rems == UNION {cs[i].items : i \in {j \in DOMAIN cs : cs[j].m = "remove" /\ cs[j].ok}}
    IN (srv \cup adds) \ rems

\* Container._update on working set cur and baseline orig; order and nOk are
\* the iteration order of the removed set and how many of its calls return
Container_update(type, cur, orig, srv, addOk, order, nOk) ==
    LET added == Added(cur, orig)
        ac == AddCalls(added, addOk)
        addFailed == added # {} /\ ~addOk
        rc == IF addFailed THEN <<>> ELSE RemoveCalls(type, order, nOk)
        failed == addFailed \/ nOk < Len(order)
        cs == UpdateOrder(ac, rc)
    IN [calls |-> cs, raised |-> failed, server |-> ServerAfter(srv, cs),
        original |-> IF failed THEN orig ELSE cur]

\* Outcomes of the remote calls of one _update: whether the add returns, the
\* iteration order of the removed set, how many of the remove calls return
Outcomes(type, added, removed) ==
    LET n == Cardinality(removed)
        orders == IF type \in TagTypes THEN {CHOOSE o \in Perms(removed) : TRUE}
                  ELSE Perms(removed)
        oks == IF type \in TagTypes THEN {0, n} ELSE 0 .. n
    IN {<<TRUE, order, nOk>> : order \in orders, nOk \in oks}
       \cup (IF added = {} THEN {}
             ELSE {<<FALSE, CHOOSE o \in orders : TRUE, 0>>})

CachingNever(level) == FALSE
\* "if _cache:" of the setter, of add and of remove
Caching(level) == level # CACHE_NONE

ShouldUpdateAlways(m) == TRUE
\* "if self._modified:" of Mutable.update
ShouldUpdate(m) == m

\* History kept beside the container: the baseline after the _items property
BaseAfter(g) == IF current = Unloaded /\ ~g.raised THEN g.current ELSE base
BufferedAfter(g) == IF current = Unloaded /\ ~g.raised THEN TRUE ELSE bufferedOnly

\* The P5 scenario of the spec: load {a, b}, remove(b), add(c), remove(a),
\* add(b), flush, with a = 1, b = 2, c = 3
P5Step(op, arg) ==
    CASE op = "remove" /\ p5 = 1 /\ arg = {2} -> 2
      [] op = "add" /\ p5 = 2 /\ arg = {3} -> 3
      [] op = "remove" /\ p5 = 3 /\ arg = {1} -> 4
      [] op = "add" /\ p5 = 4 /\ arg = {2} -> 5
      [] op = "update" /\ p5 = 5 -> 6
      [] OTHER -> 0

\* __contains__, __len__, __iter__: the _items property
Container_access ==
    \E ok \in GetOutcomes : \E g \in {Container_items(ok[1], ok[2])} :
           /\ current' = g.current
           /\ original' = g.original
           /\ calls' = g.calls
           /\ raised' = g.raised
           /\ lastOp' = "items"
           /\ base' = BaseAfter(g)
           /\ bufferedOnly' = BufferedAfter(g)
           /\ p5' = IF current # Unloaded THEN (IF p5 = 6 THEN 0 ELSE p5)
                    ELSE IF ~g.raised /\ g.current = {1, 2} /\ Caching(cache) THEN 1
                    ELSE 0
           /\ UNCHANGED <<cache, ctype, cmodified, server, evars, rvars, ovars>>

\* The tail shared by add and remove: items holds the loaded state g, cur1
\* the working set after the change, changed whether there was any change
Container_change(op, items, g, cur1, changed) ==
    /\ lastOp' = op
    /\ UNCHANGED <<cache, ctype, evars, rvars, ovars>>
    /\ IF g.raised \/ ~changed
       THEN /\ current' = g.current
            /\ original' = g.original
            /\ calls' = g.calls
            /\ raised' = g.raised
            /\ base' = BaseAfter(g)
            /\ bufferedOnly' = BufferedAfter(g)
            /\ p5' = 0
            /\ UNCHANGED <<cmodified, server>>
       ELSE IF Caching(cache)
       THEN /\ current' = cur1
            /\ original' = g.original
            /\ cmodified' = TRUE
            /\ calls' = g.calls
            /\ raised' = FALSE
            /\ base' = BaseAfter(g)
            /\ bufferedOnly' = BufferedAfter(g)
            /\ p5' = P5Step(op, items)
            /\ UNCHANGED server
       ELSE \E o \in Outcomes(ctype, Added(cur1, g.original), Removed(cur1, g.original)) :
                \E u \in {Container_update(ctype, cur1, g.original, server, o[1], o[2], o[3])} :
                   /\ current' = cur1
                   /\ original' = u.original
                   /\ server' = u.server
                   /\ calls' = g.calls \o u.calls
                   /\ raised' = u.raised
                   /\ base' = IF u.raised THEN BaseAfter(g) ELSE cur1
                   /\ bufferedOnly' = ~u.raised
                   /\ p5' = 0
                   /\ UNCHANGED cmodified

AfterAddNone(cur, items) == cur
\* "self._items.update(items)" of add
AfterAdd(cur, items) == cur \cup items

\* "self._items.difference_update(items)" of remove
AfterRemove(cur, items) == cur \ items

\* Container.add: items is the argument as a set
Container_add(items) ==
    \E ok \in GetOutcomes : \E g \in {Container_items(ok[1], ok[2])} :
        Container_change("add", items, g, AfterAdd(g.current, items),
                            items \ g.current # {})

\* Container.remove
Container_remove(items) ==
    \E ok \in GetOutcomes : \E g \in {Container_items(ok[1], ok[2])} :
        Container_change("remove", items, g, AfterRemove(g.current, items),
                            items \cap g.current # {})

\* Mutable.update of the container
Container_flush ==
    /\ lastOp' = "update"
    /\ UNCHANGED <<cache, ctype, current, evars, rvars, ovars>>
    /\ IF ShouldUpdate(cmodified)
       THEN \E o \in Outcomes(ctype, Added(current, original), Removed(current, original)) :
                \E u \in {Container_update(ctype, current, original, server, o[1], o[2], o[3])} :
                   /\ original' = u.original
                   /\ server' = u.server
                   /\ calls' = u.calls
                   /\ raised' = u.raised
                   /\ cmodified' = IF u.raised THEN cmodified ELSE FALSE
                   /\ base' = IF u.raised THEN base ELSE current
                   /\ bufferedOnly' = IF u.raised THEN bufferedOnly ELSE TRUE
                   /\ p5' = IF u.raised THEN 0 ELSE P5Step("update", {})
       ELSE /\ calls' = <<>>
            /\ raised' = FALSE
            /\ p5' = 0
            /\ UNCHANGED <<original, server, cmodified, base, bufferedOnly>>

SetCacheLevelFlushing(level) ==
    /\ cache' = level
    /\ calls' = <<Call("update", {}, TRUE)>>
    /\ raised' = FALSE
\* setCacheLevel with a level of the range
SetCacheLevel(level) ==
    /\ cache' = level
    /\ calls' = <<>>
    /\ raised' = FALSE

-----------------------------------------------------------------------------
(* Entities and the lazy field accessors *)

Values == 1 .. NumValues

MutableTypes == {"TestPlan", "TestRun", "TestCase", "CaseRun"}
EntityTypes == {"Build", "Category", "Product", "User", "Version"} \cup MutableTypes

\* The properties a class declares with _getter
Declared(type) ==
    CASE type = "Build" -> {"id", "name", "product"}
      [] type = "Category" -> {"id", "name", "product", "description"}
      [] type = "Product" -> {"id", "name", "version"}
      [] type = "User" -> {"id", "login", "email", "name"}
      [] type = "Version" -> {"id", "name", "product"}
      [] type = "TestPlan" -> {"id", "author", "tags", "testcases", "name", "parent",
                               "product", "type", "status"}
      [] type = "TestRun" -> {"id", "testplan", "tags", "build", "manager", "notes",
                              "status", "summary", "tester", "time"}
      [] type = "TestCase" -> {"id", "author", "tags", "bugs", "testplans", "automated",
                               "arguments", "category", "notes", "priority", "product",
                               "requirement", "script", "status", "summary", "tester",
                               "time"}
      [] type = "CaseRun" -> {"id", "testcase", "testrun", "bugs", "assignee", "build",
                              "notes", "sortkey", "status"}

\* The properties a class declares with _getter and _setter
ReadWrite(type) ==
    CASE type = "Product" -> {"version"}
      [] type = "TestPlan" -> {"name", "parent", "product", "type", "status"}
      [] type = "TestRun" -> {"build", "manager", "notes", "status", "summary", "tester",
                              "time"}
      [] type = "TestCase" -> {"automated", "arguments", "category", "notes", "priority",
                               "product", "requirement", "script", "status", "summary",
                               "tester", "time"}
      [] type = "CaseRun" -> {"assignee", "build", "notes", "sortkey", "status"}
      [] OTHER -> {}

\* The declared fields __init__ by id sets to NitrateNone
InitNone(type) ==
    CASE type = "Build" -> {"name", "product"}
      [] type = "Category" -> {"name", "product"}
      [] type = "Product" -> {"name", "version"}
      [] type = "User" -> {"name", "login", "email"}
      [] type = "Version" -> {"name", "product"}
      [] type = "TestPlan" -> {"author", "name", "parent", "product", "type", "testcases",
                               "tags", "status"}
      [] type = "TestRun" -> {"testplan", "build", "manager", "summary", "tester", "time",
                              "notes", "status", "tags"}
      [] type = "TestCase" -> {"product", "category", "priority", "summary", "status",
                               "tester", "time", "automated", "script", "arguments",
                               "tags", "testplans", "bugs", "author"}
      [] type = "CaseRun" -> {"assignee", "bugs", "build", "notes", "sortkey", "status",
                              "testcase", "testrun"}

\* The declared fields _get assigns from the fetched record, in order
GetOrder(type) ==
    CASE type = "Build" -> <<"name", "product">>
      [] type = "Category" -> <<"name", "product">>
      [] type = "Product" -> <<"name">>
      [] type = "User" -> <<"id", "login", "email", "name">>
      [] type = "Version" -> <<"name", "product">>
      [] type = "TestPlan" -> <<"author", "name", "product", "type", "status", "parent",
                                "tags", "testcases">>
      [] type = "TestRun" -> <<"build", "manager", "notes", "status", "summary", "tester",
                               "testplan", "time", "tags">>
      [] type = "TestCase" -> <<"arguments", "author", "automated", "category", "notes",
                                "priority", "requirement", "script", "status", "summary",
                                "time", "tester", "bugs", "tags", "testplans">>
      [] type = "CaseRun" -> <<"assignee", "build", "notes", "sortkey", "status",
                               "testrun", "testcase", "bugs">>

GetSets(type) == Range(GetOrder(type))

\* The assignments of _get that can raise: an enumeration rejecting the id of
\* the record, and User(...) issuing the bulk call of level ALL
RaisesAt(type, level) ==
    CASE type = "TestPlan" ->
             {"type"} \cup (IF level = CACHE_ALL THEN {"author"} ELSE {})
      [] type = "TestRun" ->
             {"status"} \cup (IF level = CACHE_ALL THEN {"manager", "tester"} ELSE {})
      [] type = "TestCase" ->
             {"priority", "status"} \cup (IF level = CACHE_ALL THEN {"author", "tester"} ELSE {})
      [] type = "CaseRun" ->
             {"sortkey", "status"} \cup (IF level = CACHE_ALL THEN {"assignee"} ELSE {})
      [] OTHER -> {}

\* The fields _update reads to build the hash it sends, in order
UpdateReads(type) ==
    CASE type = "TestPlan" -> <<"name", "product", "type", "status", "parent">>
      [] type = "TestRun" -> <<"build", "tester", "time", "manager", "notes", "status",
                               "summary">>
      [] type = "TestCase" -> <<"arguments", "status", "category", "time", "automated",
                                "notes", "priority", "requirement", "script", "summary",
                                "tester">>
      [] type = "CaseRun" -> <<"build", "assignee", "status", "notes", "sortkey">>
      [] OTHER -> <<>>

UpdateSends(type) == Range(UpdateReads(type))

\* The attributes of an instance constructed by id
InitFields(type) ==
    [a \in InitNone(type) \cup {"id"} |-> IF a = "id" THEN 1 ELSE NitrateNone]

IndexOf(seq, a) == CHOOSE i \in DOMAIN seq : seq[i] = a

\* The call repeated when the store answers with no record
GetCallsRetried(fo) ==
    IF fo = "missing" THEN <<Call("get", {}, TRUE), Call("get", {}, TRUE)>>
    ELSE <<Call("get", {}, fo # "fault")>>
\* The remote call of _get: it raises, or the store answers
GetCalls(fo) == <<Call("get", {}, fo # "fault")>>

\* _get by id: one remote call, then the assignments of the record in order.
\* fo is "ok", "fault" (the remote call raised), "missing" (the store answers
\* with no record and _get raises NitrateError) or the field whose assignment
\* raised: the assignments before it stay done
Entity_get(type, flds, st, fo) ==
    LET order == GetOrder(type)
        done == CASE fo = "ok" -> Range(order)
                  [] fo \in {"fault", "missing"} -> {}
                  [] OTHER -> {order[i] : i \in 1 .. (IndexOf(order, fo) - 1)}
    IN [calls |-> GetCalls(fo),
        raised |-> fo # "ok",
        fetched |-> fo = "ok",
        fields |-> [a \in DOMAIN flds \cup done |-> IF a \in done THEN st[a] ELSE flds[a]]]

FetchOutcomes(type, level) == {"ok", "fault"} \cup RaisesAt(type, level)

\* The head shared by getter and setter: fetch when the field is the sentinel
Accessor(type, flds, st, f, fo) ==
    IF flds[f] = NitrateNone
    THEN Entity_get(type, flds, st, fo)
    ELSE [calls |-> <<>>, raised |-> FALSE, fetched |-> FALSE, fields |-> flds]

\* getter of field f
Getter(type, flds, st, f, fo) ==
    IF f \notin DOMAIN flds
    THEN [calls |-> <<>>, raised |-> TRUE, fetched |-> FALSE, fields |-> flds,
          result |-> NitrateNone]
    ELSE LET g == Accessor(type, flds, st, f, fo)
         IN [calls |-> g.calls, raised |-> g.raised, fetched |-> g.fetched,
             fields |-> g.fields,
             result |-> IF g.raised THEN NitrateNone ELSE g.fields[f]]

GetterResults(type, level, flds, st, f) ==
    {Getter(type, flds, st, f, fo) : fo \in FetchOutcomes(type, level)}

UpdateOutcomes(type) ==
    IF type \in MutableTypes THEN {"ok", "fault", "early"} ELSE {"early"}

\* _update of the Mutable classes: the hash is built from the fields, read
\* through their getters in order (the first one that is the sentinel fetches
\* the entity; a lazy fetch of a referenced entity may raise before the call:
\* "early"), then one remote update call; the other classes have no _update
Entity_update(type, flds, st, fo, out) ==
    LET order == UpdateReads(type)
        need == {i \in DOMAIN order : order[i] \notin DOMAIN flds \/ flds[order[i]] = NitrateNone}
        first == IF need = {} THEN Len(order) + 1
                 ELSE CHOOSE i \in need : \A k \in need : i <= k
        g == IF need = {} \/ order[first] \notin DOMAIN flds
             THEN [calls |-> <<>>, raised |-> need # {}, fetched |-> FALSE, fields |-> flds]
             ELSE Entity_get(type, flds, st, fo)
        hash == [a \in Range(order) |->
                    IF IndexOf(order, a) < first THEN flds[a] ELSE g.fields[a]]
    IN IF g.raised \/ out = "early"
       THEN [calls |-> g.calls, raised |-> TRUE, fetched |-> g.fetched,
             fields |-> g.fields, store |-> st]
       ELSE [calls |-> g.calls \o <<Call("update", {}, out = "ok")>>,
             raised |-> out # "ok",
             fetched |-> g.fetched,
             fields |-> g.fields,
             store |-> IF out = "ok"
                       THEN [a \in DOMAIN st |-> IF a \in DOMAIN hash THEN hash[a] ELSE st[a]]
                       ELSE st]

ChangedAlways(old, new) == TRUE
\* "if getattr(self, "_" + field) != value:" of the setter
Changed(old, new) == old # new

\* setter of field f with value v (at most one of its two fetches happens:
\* after the accessor's fetch no field _update reads is the sentinel)
Setter(type, level, flds, mod, st, f, v, fo, out) ==
    IF f \notin DOMAIN flds
    THEN [calls |-> <<>>, raised |-> TRUE, fetched |-> FALSE, fields |-> flds,
          modified |-> mod, store |-> st]
    ELSE LET g == Accessor(type, flds, st, f, fo)
             w == [g.fields EXCEPT ![f] = v]
             u == Entity_update(type, w, st, fo, out)
         IN IF g.raised \/ ~Changed(g.fields[f], v)
            THEN [calls |-> g.calls, raised |-> g.raised, fetched |-> g.fetched,
                  fields |-> g.fields, modified |-> mod, store |-> st]
            ELSE IF Caching(level)
            THEN [calls |-> g.calls, raised |-> FALSE, fetched |-> g.fetched,
                  fields |-> w, modified |-> TRUE, store |-> st]
            ELSE [calls |-> g.calls \o u.calls, raised |-> u.raised,
                  fetched |-> g.fetched \/ u.fetched,
                  fields |-> u.fields, modified |-> mod, store |-> u.store]

SetterResults(type, level, flds, mod, st, f, v) ==
    {Setter(type, level, flds, mod, st, f, v, fo, out) :
        fo \in FetchOutcomes(type, level), out \in UpdateOutcomes(type)}

\* Mutable.update
Flusher(type, flds, mod, st, fo, out) ==
    LET u == Entity_update(type, flds, st, fo, out)
    IN IF ShouldUpdate(mod)
       THEN [calls |-> u.calls, raised |-> u.raised, fetched |-> u.fetched,
             fields |-> u.fields, store |-> u.store,
             modified |-> IF u.raised THEN mod ELSE FALSE]
       ELSE [calls |-> <<>>, raised |-> FALSE, fetched |-> FALSE,
             fields |-> flds, store |-> st, modified |-> mod]

FlusherResults(type, level, flds, mod, st) ==
    {Flusher(type, flds, mod, st, fo, out) :
        fo \in FetchOutcomes(type, level), out \in UpdateOutcomes(type)}

\* A field read of the entity
Entity_read(f) ==
    /\ eop' = [op |-> "read", f |-> "", v |-> NitrateNone]
    /\ UNCHANGED <<cache, cvars, rvars, ovars, etype, modified, store, wfields>>
    /\ \E r \in GetterResults(etype, cache, fields, store, f) :
          /\ fields' = r.fields
          /\ calls' = r.calls
          /\ raised' = r.raised
          /\ result' = r.result
          /\ fetched' = (fetched \/ r.fetched)

\* A field write of the entity
Entity_write(f, v) ==
    /\ eop' = [op |-> "write", f |-> f, v |-> v]
    /\ result' = NitrateNone
    /\ UNCHANGED <<cache, cvars, rvars, ovars, etype, wfields>>
    /\ \E r \in SetterResults(etype, cache, fields, modified, store, f, v) :
          /\ fields' = r.fields
          /\ modified' = r.modified
          /\ store' = r.store
          /\ calls' = r.calls
          /\ raised' = r.raised
          /\ fetched' = (fetched \/ r.fetched)

\* update() of the entity
Entity_flush ==
    /\ etype \in MutableTypes
    /\ eop' = [op |-> "update", f |-> "", v |-> NitrateNone]
    /\ result' = NitrateNone
    /\ UNCHANGED <<cache, cvars, rvars, ovars, etype, wfields>>
    /\ \E r \in FlusherResults(etype, cache, fields, modified, store) :
          /\ fields' = r.fields
          /\ modified' = r.modified
          /\ store' = r.store
          /\ calls' = r.calls
          /\ raised' = r.raised
          /\ fetched' = (fetched \/ r.fetched)

-----------------------------------------------------------------------------
(* The per-class cache dictionaries and the instances clients hold *)

Ids == 1 .. NumIds
LookupIds == 1 .. NumLookupIds
Clients == 1 .. NumClients

\* The classes whose __new__ keeps a dictionary of instances (_categories, _users)
HasRegistry(type) == type \in {"Category", "User"}

\* The class whose __new__ fetches all records at CACHE_ALL
Prefetches(type) == type = "User"

\* The fields the clients of a class read and assign: one the fetch and the
\* update handle, and the ones they do not handle
ClientFields(type) ==
    CASE type = "TestPlan" -> {"name"}
      [] type = "TestRun" -> {"notes"}
      [] type = "TestCase" -> {"summary", "product"}
      [] type = "CaseRun" -> {"notes"}
      [] type = "Product" -> {"name", "version"}
      [] type = "User" -> {"login"}
      [] OTHER -> {"name"}

\* The record the store holds for an id
StoreRecord(type, id) == [a \in GetSets(type) |-> IF a = "id" THEN id ELSE 1]

\* __init__ by id
Construct(type, id) ==
    [fields |-> [InitFields(type) EXCEPT !["id"] = id], modified |-> FALSE]

\* __init__ with hash: every field comes from the record
ConstructFromHash(type, rec) ==
    [fields |-> Entity_get(type, Construct(type, NitrateNone).fields, rec, "ok").fields,
     modified |-> FALSE]

Enum(S) == CHOOSE f \in [1 .. Cardinality(S) -> S] : \A i, k \in DOMAIN f : i < k => f[i] < f[k]

\* Instances nothing refers to are destroyed; the others are listed the
\* cached ones first, by id, then the ones only clients hold, by client
Compact(h, reg, rf) ==
    LET live == ({reg[i] : i \in DOMAIN reg} \cup {rf[k] : k \in DOMAIN rf}) \ {0}
        Key(x) == IF \E i \in DOMAIN reg : reg[i] = x
                  THEN CHOOSE i \in DOMAIN reg : reg[i] = x /\ \A n \in DOMAIN reg : reg[n] = x => i <= n
                  ELSE NumIds + (CHOOSE k \in DOMAIN rf : rf[k] = x /\ \A n \in DOMAIN rf : rf[n] = x => k <= n)
        Rank(x) == IF x = 0 THEN 0 ELSE Cardinality({y \in live : Key(y) <= Key(x)})
    IN [heap |-> [n \in 1 .. Cardinality(live) |-> h[CHOOSE x \in live : Rank(x) = n]],
        registry |-> [i \in DOMAIN reg |-> Rank(reg[i])],
        refs |-> [k \in DOMAIN rf |-> Rank(rf[k])]]

\* "not User._users"
RegistryEmpty(reg) == \A i \in DOMAIN reg : reg[i] = 0

Nitrate_eqWhole(o1, o2) == o1 = o2
\* Nitrate.__eq__: by id
Nitrate_eq(o1, o2) == o1.fields["id"] = o2.fields["id"]

UsesRegistryAtAnyLevel(type, level) == HasRegistry(type)
\* "if _cache >= CACHE_OBJECTS and id is not None:" of __new__
UsesRegistry(type, level) == HasRegistry(type) /\ level >= CACHE_OBJECTS

\* The search of the dictionary in __new__, then __init__: the cached
\* instance, a new cached one, or a new one when the level is below OBJECTS
\* or no id was given (id is NitrateNone then, as Nitrate.__init__ leaves it)
AlwaysFresh(type, level, h, reg, id) ==
    [heap |-> Append(h, Construct(type, id)), registry |-> reg, obj |-> Len(h) + 1]
NewById(type, level, h, reg, id) ==
    IF UsesRegistry(type, level) /\ id # NitrateNone
    THEN IF reg[id] # 0
         THEN [heap |-> h, registry |-> reg, obj |-> reg[id]]
         ELSE [heap |-> Append(h, Construct(type, id)),
               registry |-> [reg EXCEPT ![id] = Len(h) + 1],
               obj |-> Len(h) + 1]
    ELSE [heap |-> Append(h, Construct(type, id)), registry |-> reg, obj |-> Len(h) + 1]

\* The loop of __new__ over the bulk result: one instance per record, stored
\* under its id
CacheAll(type, h, reg, st) ==
    LET ids == Enum(DOMAIN st)
    IN [heap |-> h \o [n \in DOMAIN ids |-> ConstructFromHash(type, st[ids[n]])],
        registry |-> [i \in DOMAIN reg |->
                         IF i \in DOMAIN st THEN Len(h) + IndexOf(ids, i) ELSE reg[i]]]

\* After the loop "hash" is the last record, so the search of the dictionary
\* is skipped unless the result was empty
AfterBulk(type, level, h, reg, st, id) ==
    LET c == CacheAll(type, h, reg, st)
    IN IF DOMAIN st # {}
       THEN [heap |-> Append(c.heap, Construct(type, id)), registry |-> c.registry,
             obj |-> Len(c.heap) + 1]
       ELSE NewById(type, level, c.heap, c.registry, id)

\* "Otherwise initialize to the current user" of User._get: the account the
\* connection is logged in with
Me == CHOOSE i \in Ids : \A j \in Ids : i <= j

\* The record a fetch of an instance asks the store for
Target(id) == IF id = NitrateNone THEN Me ELSE id

\* The outcomes of a fetch of the instance with this id
ROutcomes(id) ==
    IF Target(id) \in DOMAIN rstore THEN FetchOutcomes(rtype, cache)
    ELSE {"missing", "fault"}

RRecord(id) ==
    IF Target(id) \in DOMAIN rstore THEN rstore[Target(id)]
    ELSE StoreRecord(rtype, Target(id))

Busy(k) == \E j \in Clients \ {k} : pc[j] = "bulk"

\* Class(id) by client k, or User() when id is NitrateNone: at CACHE_ALL with
\* an empty dictionary the class issues the bulk call, which returns in
\* Registry_bulkReturn
Registry_lookup(k, id) ==
    /\ pc[k] = "idle"
    /\ refs[k] = 0
    /\ interleaved' = (interleaved \/ Busy(k))
    /\ levelChanged' = levelChanged
    /\ UNCHANGED ovars
    /\ given' = [given EXCEPT ![k] = id]
    /\ calls' = <<>>
    /\ raised' = FALSE
    /\ rresult' = NitrateNone
    /\ UNCHANGED <<cache, cvars, evars, rtype, rfield, rstore, bulkCalls>>
    /\ IF Prefetches(rtype) /\ cache = CACHE_ALL /\ RegistryEmpty(registry)
       THEN /\ bulkCalls + Cardinality({j \in Clients : pc[j] = "bulk"}) < MaxBulk
            /\ pc' = [pc EXCEPT ![k] = "bulk"]
            /\ rop' = [op |-> "bulk", k |-> k, v |-> NitrateNone]
            /\ UNCHANGED <<heap, registry, refs>>
       ELSE \E n \in {NewById(rtype, cache, heap, registry, id)} :
            \E c \in {Compact(n.heap, n.registry, [refs EXCEPT ![k] = n.obj])} :
               /\ heap' = c.heap
               /\ registry' = c.registry
               /\ refs' = c.refs
               /\ rop' = [op |-> "lookup", k |-> k, v |-> NitrateNone]
               /\ UNCHANGED pc

\* The bulk call of client k returns or raises, and __new__ and __init__ finish
Registry_bulkReturn(k) ==
    /\ pc[k] = "bulk"
    /\ pc' = [pc EXCEPT ![k] = "idle"]
    /\ interleaved' = (interleaved \/ Busy(k))
    /\ levelChanged' = levelChanged
    /\ UNCHANGED ovars
    /\ rop' = [op |-> "bulkReturn", k |-> k, v |-> NitrateNone]
    /\ rresult' = NitrateNone
    /\ UNCHANGED <<cache, cvars, evars, rtype, rfield, rstore>>
    /\ \/ /\ calls' = <<Call("filter", {}, FALSE)>>
          /\ raised' = TRUE
          /\ given' = [given EXCEPT ![k] = NitrateNone]
          /\ UNCHANGED <<heap, registry, refs, bulkCalls>>
       \/ \E a \in {AfterBulk(rtype, cache, heap, registry, rstore, given[k])} :
          \E c \in {Compact(a.heap, a.registry, [refs EXCEPT ![k] = a.obj])} :
             /\ calls' = <<Call("filter", DOMAIN rstore, TRUE)>>
             /\ raised' = FALSE
             /\ heap' = c.heap
             /\ registry' = c.registry
             /\ refs' = c.refs
             /\ bulkCalls' = bulkCalls + 1
             /\ UNCHANGED given

\* Client k reads the field of the instance it holds
Registry_read(k) ==
    /\ pc[k] = "idle"
    /\ refs[k] # 0
    /\ interleaved' = (interleaved \/ Busy(k))
    /\ levelChanged' = levelChanged
    /\ UNCHANGED ovars
    /\ rop' = [op |-> "read", k |-> k, v |-> NitrateNone]
    /\ UNCHANGED <<cache, cvars, evars, rtype, rfield, registry, refs, rstore, pc,
                   given, bulkCalls>>
    /\ LET o == heap[refs[k]]
           id == o.fields["id"]
       IN \E r \in {Getter(rtype, o.fields, RRecord(id), rfield, fo) : fo \in ROutcomes(id)} :
             /\ heap' = [heap EXCEPT ![refs[k]].fields = r.fields]
             /\ calls' = r.calls
             /\ raised' = r.raised
             /\ rresult' = r.result

\* Client k assigns v to the field of the instance it holds
Registry_write(k, v) ==
    /\ pc[k] = "idle"
    /\ refs[k] # 0
    /\ rfield \in ReadWrite(rtype)
    /\ interleaved' = (interleaved \/ Busy(k))
    /\ levelChanged' = levelChanged
    /\ UNCHANGED ovars
    /\ rop' = [op |-> "write", k |-> k, v |-> v]
    /\ rresult' = NitrateNone
    /\ UNCHANGED <<cache, cvars, evars, rtype, rfield, registry, refs, pc, given,
                   bulkCalls>>
    /\ LET o == heap[refs[k]]
           id == o.fields["id"]
       IN \E r \in {Setter(rtype, cache, o.fields, o.modified, RRecord(id), rfield, v,
                           fo, out) :
                       fo \in ROutcomes(id), out \in UpdateOutcomes(rtype)} :
             /\ heap' = [heap EXCEPT ![refs[k]] = [fields |-> r.fields,
                                                   modified |-> r.modified]]
             /\ rstore' = IF id \in DOMAIN rstore THEN [rstore EXCEPT ![id] = r.store]
                          ELSE rstore
             /\ calls' = r.calls
             /\ raised' = r.raised

\* Client k calls update() on the instance it holds
Registry_flush(k) ==
    /\ pc[k] = "idle"
    /\ refs[k] # 0
    /\ rtype \in MutableTypes
    /\ interleaved' = (interleaved \/ Busy(k))
    /\ levelChanged' = levelChanged
    /\ UNCHANGED ovars
    /\ rop' = [op |-> "update", k |-> k, v |-> NitrateNone]
    /\ rresult' = NitrateNone
    /\ UNCHANGED <<cache, cvars, evars, rtype, rfield, registry, refs, pc, given,
                   bulkCalls>>
    /\ LET o == heap[refs[k]]
           id == o.fields["id"]
       IN \E r \in {Flusher(rtype, o.fields, o.modified, RRecord(id), fo, out) :
                       fo \in ROutcomes(id), out \in UpdateOutcomes(rtype)} :
             /\ heap' = [heap EXCEPT ![refs[k]] = [fields |-> r.fields,
                                                   modified |-> r.modified]]
             /\ rstore' = IF id \in DOMAIN rstore THEN [rstore EXCEPT ![id] = r.store]
                          ELSE rstore
             /\ calls' = r.calls
             /\ raised' = r.raised

\* Client k drops its reference; an instance nothing refers to is destroyed,
\* and Mutable.__del__ calls update() and swallows what it raises
Registry_drop(k) ==
    /\ pc[k] = "idle"
    /\ refs[k] # 0
    /\ interleaved' = (interleaved \/ Busy(k))
    /\ levelChanged' = levelChanged
    /\ UNCHANGED ovars
    /\ rop' = [op |-> "drop", k |-> k, v |-> NitrateNone]
    /\ rresult' = NitrateNone
    /\ raised' = FALSE
    /\ given' = [given EXCEPT ![k] = NitrateNone]
    /\ UNCHANGED <<cache, cvars, evars, rtype, rfield, pc, bulkCalls>>
    /\ \E c \in {Compact(heap, registry, [refs EXCEPT ![k] = 0])} :
          /\ heap' = c.heap
          /\ registry' = c.registry
          /\ refs' = c.refs
    /\ LET o == heap[refs[k]]
           id == o.fields["id"]
       IN IF rtype \in MutableTypes
          THEN \E r \in {Flusher(rtype, o.fields, o.modified, RRecord(id), fo, out) :
                            fo \in ROutcomes(id), out \in UpdateOutcomes(rtype)} :
                  /\ rstore' = IF id \in DOMAIN rstore
                               THEN [rstore EXCEPT ![id] = r.store] ELSE rstore
                  /\ calls' = r.calls
          ELSE /\ calls' = <<>>
               /\ UNCHANGED rstore

-----------------------------------------------------------------------------
(* Comparison of two instances of one class *)

\* Nitrate.__ne__: by id
Nitrate_ne(o1, o2) == o1.fields["id"] # o2.fields["id"]

\* Nitrate.__hash__: the id
Nitrate_hash(o) == o.fields["id"]

\* "self.id" and "other.id" of __eq__ and __ne__: the getter of id on both
\* instances, the left one first; it fetches an instance that has no id yet
IdReads(p, fo1, fo2) ==
    LET ga == Getter(rtype, p.a.fields, RRecord(p.a.fields["id"]), "id", fo1)
        bf == IF p.same THEN ga.fields ELSE p.b.fields
        gb == IF ga.raised
              THEN [calls |-> <<>>, raised |-> TRUE, fields |-> bf]
              ELSE Getter(rtype, bf, RRecord(bf["id"]), "id", fo2)
    IN [calls |-> ga.calls \o gb.calls,
        raised |-> gb.raised,
        a |-> [p.a EXCEPT !.fields = IF p.same THEN gb.fields ELSE ga.fields],
        b |-> [p.b EXCEPT !.fields = gb.fields]]

IdOutcomes(o) == IF o.fields["id"] = NitrateNone THEN ROutcomes(NitrateNone) ELSE {"ok"}

\* The tail shared by the comparisons
Equality_done(op, r, res) ==
    /\ pair' = [pair EXCEPT !.a = r.a, !.b = r.b, !.op = op,
                            !.res = IF r.raised THEN FALSE ELSE res]
    /\ calls' = r.calls
    /\ raised' = r.raised
    /\ UNCHANGED <<cache, cvars, evars, rvars, maker, pvars, xvars>>

\* a == b
Equality_eq ==
    \E fo1 \in IdOutcomes(pair.a), fo2 \in IdOutcomes(pair.b) :
       \E r \in {IdReads(pair, fo1, fo2)} :
          Equality_done("eq", r, Nitrate_eq(r.a, r.b))

\* a != b
Equality_ne ==
    \E fo1 \in IdOutcomes(pair.a), fo2 \in IdOutcomes(pair.b) :
       \E r \in {IdReads(pair, fo1, fo2)} :
          Equality_done("ne", r, Nitrate_ne(r.a, r.b))

\* hash(a) == hash(b)
Equality_hash ==
    \E fo1 \in IdOutcomes(pair.a), fo2 \in IdOutcomes(pair.b) :
       \E r \in {IdReads(pair, fo1, fo2)} :
          Equality_done("hash", r, Nitrate_hash(r.a) = Nitrate_hash(r.b))

\* A read of the field on a (x = 1) or on b (x = 2), which fetches the instance
Equality_read(x) ==
    LET o == IF x = 1 \/ pair.same THEN pair.a ELSE pair.b
    IN \E r \in {Getter(rtype, o.fields, RRecord(o.fields["id"]), rfield, fo) :
                    fo \in ROutcomes(o.fields["id"])} :
          /\ pair' = [pair EXCEPT !.a = IF x = 1 \/ pair.same
                                        THEN [o EXCEPT !.fields = r.fields] ELSE @,
                                  !.b = IF x = 2 \/ pair.same
                                        THEN [o EXCEPT !.fields = r.fields] ELSE @,
                                  !.op = "read", !.res = FALSE]
          /\ calls' = r.calls
          /\ raised' = r.raised
          /\ UNCHANGED <<cache, cvars, evars, rvars, maker, pvars, xvars>>

-----------------------------------------------------------------------------
(* Construction of a new record: Class(...) without id and without hash *)

CreateTypes == {"TestPlan", "TestRun", "TestCase"}

\* The arguments a construction may be given besides the id
Arguments(type) ==
    CASE type = "TestPlan" -> {"name", "product", "version", "type"}
      [] type = "TestRun" -> {"testplan"}
      [] type = "TestCase" -> {"summary", "category", "product"}

\* "elif name and type and product:", "elif testplan:" of __init__; TestCase
\* leaves the test to _create
InitRequires(type) ==
    CASE type = "TestPlan" -> {"name", "type", "product"}
      [] type = "TestRun" -> {"testplan"}
      [] type = "TestCase" -> {}

\* The arguments _create tests before it looks the product up, and after
CreateRequiresFirst(type) ==
    CASE type = "TestPlan" -> {"name", "product"}
      [] type = "TestRun" -> {}
      [] type = "TestCase" -> {"summary", "product"}

CreateRequiresThen(type) ==
    CASE type = "TestPlan" -> {"version", "type"}
      [] type = "TestRun" -> {}
      [] type = "TestCase" -> {"category"}

\* What the store answers: the product or plan is looked up and found, is an
\* object whose id is known already, is not in the store, the lookup faults,
\* the create call faults
CreateOutcomes == {"ok", "known", "lookupMissing", "lookupFault", "createFault"}

Made(cs, error) ==
    [calls |-> cs, raised |-> error # "none", error |-> error,
     created |-> IF error = "none" THEN 1 ELSE 0]

\* __init__ without id and hash, then _create: the tests of the arguments, the
\* lookup of the product or plan named by an argument (product.id,
\* testplan.id), the remaining tests, the remote create call
Create(type, args, out) ==
    LET lookup == IF out = "known" THEN <<>>
                  ELSE <<Call("get", {}, out # "lookupFault")>>
    IN IF ~(InitRequires(type) \subseteq args) THEN Made(<<>>, "Required")
       ELSE IF ~(CreateRequiresFirst(type) \subseteq args) THEN Made(<<>>, "Required")
       ELSE IF out = "lookupFault" THEN Made(lookup, "Fault")
       ELSE IF out = "lookupMissing" THEN Made(lookup, "CannotFind")
       ELSE IF ~(CreateRequiresThen(type) \subseteq args) THEN Made(lookup, "Required")
       ELSE IF out = "createFault"
       THEN Made(lookup \o <<Call("create", {}, FALSE)>>, "Fault")
       ELSE Made(lookup \o <<Call("create", {}, TRUE)>>, "none")

\* Class(...) given these arguments and no id
Entity_create(type, args) ==
    \E r \in {Create(type, args, out) : out \in CreateOutcomes} :
       /\ maker' = [done |-> TRUE, type |-> type, given |-> args, error |-> r.error,
                    issued |-> \E i \in DOMAIN r.calls : r.calls[i].m = "create",
                    created |-> r.created]
       /\ calls' = r.calls
       /\ raised' = r.raised
       /\ UNCHANGED <<cache, cvars, evars, rvars, pair, pvars, xvars>>

-----------------------------------------------------------------------------
(* An owner (TestPlan, TestRun, TestCase, CaseRun) and its containers *)

Members == 1 .. NumMembers

\* The containers _get creates, in the order update() flushes them
OwnerContainers(type) ==
    CASE type = "TestPlan" -> <<"tags", "testcases">>
      [] type = "TestRun" -> <<"tags">>
      [] type = "TestCase" -> <<"bugs", "tags", "testplans">>
      [] type = "CaseRun" -> <<"bugs">>

Owned(type) == Range(OwnerContainers(type))

\* The class of each container
ContainerClass(type, c) ==
    CASE c = "bugs" -> "Bugs"
      [] c = "testcases" -> "TestCases"
      [] c = "testplans" -> "TestPlans"
      [] c = "tags" -> (CASE type = "TestPlan" -> "PlanTags"
                          [] type = "TestRun" -> "RunTags"
                          [] type = "TestCase" -> "CaseTags")

\* Container.__init__, Bugs.__init__
NewContainer == [current |-> Unloaded, original |-> Unloaded, modified |-> FALSE]

\* Bugs keeps the owner ("self._object = object") while the owner keeps the
\* Bugs: the two form a reference cycle of instances with __del__, which the
\* interpreter never finalizes
InCycle(type, ow) == ow.fetched /\ "bugs" \in Owned(type)

\* A remote call, with the instance that issued it
OCall(c, call) == [of |-> c, m |-> call.m, items |-> call.items, ok |-> call.ok]
Issued(c, cs) == [i \in DOMAIN cs |-> OCall(c, cs[i])]

\* The getter of a field or container of the owner: _get unless fetched
Owner_get(ow, fo) ==
    IF ow.fetched
    THEN [calls |-> <<>>, raised |-> FALSE, owner |-> ow]
    ELSE [calls |-> Issued("self", GetCalls(fo)), raised |-> fo # "ok",
          owner |-> [ow EXCEPT !.fetched = (fo = "ok")]]

OwnerOutcomes(type, level, ow) ==
    IF ow.fetched THEN {"ok"} ELSE FetchOutcomes(type, level)

\* The _items property of container o
Owned_items(cls, o, srv, ok) ==
    IF o.current = Unloaded
    THEN Container_get(cls, srv, ok[1], ok[2])
    ELSE [calls |-> <<>>, raised |-> FALSE, current |-> o.current,
          original |-> o.original]

OwnedGetOutcomes(cls, o) ==
    IF o.current # Unloaded THEN {<<TRUE, TRUE>>}
    ELSE IF cls = "TestCases" THEN {<<TRUE, TRUE>>, <<FALSE, TRUE>>, <<FALSE, FALSE>>}
    ELSE {<<TRUE, TRUE>>, <<FALSE, FALSE>>}

\* The outcomes of the remote calls of one _update of container o
OwnedOutcomes(cls, o) ==
    Outcomes(cls, Added(o.current, o.original), Removed(o.current, o.original))

\* Container.add and Container.remove on container o: cur1 is the working set
\* after the change
Owned_change(level, cls, o, srv, g, cur1, changed, out) ==
    IF g.raised \/ ~changed
    THEN [calls |-> g.calls, raised |-> g.raised, server |-> srv,
          o |-> [current |-> g.current, original |-> g.original, modified |-> o.modified]]
    ELSE IF Caching(level)
    THEN [calls |-> g.calls, raised |-> FALSE, server |-> srv,
          o |-> [current |-> cur1, original |-> g.original, modified |-> TRUE]]
    ELSE LET u == Container_update(cls, cur1, g.original, srv, out[1], out[2], out[3])
         IN [calls |-> g.calls \o u.calls, raised |-> u.raised, server |-> u.server,
             o |-> [current |-> cur1, original |-> u.original, modified |-> o.modified]]

\* Mutable.update of container o; _update of Bugs is "pass"
Owned_update(cls, o, srv, out) ==
    IF ~ShouldUpdate(o.modified) \/ cls = "Bugs"
    THEN [calls |-> <<>>, raised |-> FALSE, server |-> srv,
          o |-> [o EXCEPT !.modified = FALSE]]
    ELSE LET u == Container_update(cls, o.current, o.original, srv, out[1], out[2], out[3])
         IN [calls |-> u.calls, raised |-> u.raised, server |-> u.server,
             o |-> [o EXCEPT !.original = u.original,
                             !.modified = IF u.raised THEN o.modified ELSE FALSE]]

\* The outcomes of the remote calls of the containers, one choice for each
OutChoices(type, own) ==
    {f \in [Owned(type) -> UNION {OwnedOutcomes(ContainerClass(type, c), own[c]) :
                                     c \in Owned(type)}] :
        \A c \in Owned(type) : f[c] \in OwnedOutcomes(ContainerClass(type, c), own[c])}

Swallowed(r) == FALSE
\* update() of the owner calls the update() of its containers outside any
\* "try": what a container raises leaves update() of the owner at once
Propagated(r) == r

\* "if self._tags is not NitrateNone: self.tags.update()" and so on, in order:
\* the first update that raises ends it
RECURSIVE FlushOwned(_, _, _, _, _)
FlushOwned(type, order, own, srv, outs) ==
    IF order = <<>>
    THEN [calls |-> <<>>, raised |-> FALSE, owned |-> own, ostore |-> srv,
          flushed |-> <<>>]
    ELSE LET c == Head(order)
             u == Owned_update(ContainerClass(type, c), own[c], srv[c], outs[c])
             own1 == [own EXCEPT ![c] = u.o]
             srv1 == [srv EXCEPT ![c] = u.server]
             rest == FlushOwned(type, Tail(order), own1, srv1, outs)
         IN IF Propagated(u.raised)
            THEN [calls |-> Issued(c, u.calls), raised |-> TRUE, owned |-> own1,
                  ostore |-> srv1, flushed |-> <<c>>]
            ELSE [calls |-> Issued(c, u.calls) \o rest.calls, raised |-> rest.raised,
                  owned |-> rest.owned, ostore |-> rest.ostore,
                  flushed |-> <<c>> \o rest.flushed]

\* _update of the owner: the hash is built (a lazy fetch of a referenced
\* entity may raise: "early"), then one remote update call
Owner_ownUpdate(out) ==
    IF out = "early" THEN <<>> ELSE Issued("self", <<Call("update", {}, out = "ok")>>)

OwnFirst(fc, oc) == oc \o fc
\* The calls of update(): those of the containers, then the owner's own
FlushOrder(fc, oc) == fc \o oc

\* update() of the owner: the containers that exist, then Mutable.update(self)
Owner_update(type, ow, own, srv, outs, out) ==
    LET f == FlushOwned(type, IF ow.fetched THEN OwnerContainers(type) ELSE <<>>,
                        own, srv, outs)
    IN IF f.raised
       THEN [calls |-> f.calls, raised |-> TRUE, owner |-> ow, owned |-> f.owned,
             ostore |-> f.ostore, flushed |-> f.flushed]
       ELSE IF ShouldUpdate(ow.modified)
       THEN [calls |-> FlushOrder(f.calls, Owner_ownUpdate(out)), raised |-> out # "ok",
             owner |-> [ow EXCEPT !.modified = IF out = "ok" THEN FALSE ELSE ow.modified],
             owned |-> f.owned, ostore |-> f.ostore,
             flushed |-> f.flushed \o <<"self">>]
       ELSE [calls |-> f.calls, raised |-> FALSE, owner |-> ow, owned |-> f.owned,
             ostore |-> f.ostore, flushed |-> f.flushed \o <<"self">>]

\* __del__ of each container, once its owner is gone, in the order given:
\* update() inside "try: ... except:", so a container that raises is logged
\* and the next one follows
RECURSIVE DelOwned(_, _, _, _, _)
DelOwned(type, order, own, srv, outs) ==
    IF order = <<>>
    THEN [calls |-> <<>>, ostore |-> srv, flushed |-> <<>>]
    ELSE LET c == Head(order)
             u == Owned_update(ContainerClass(type, c), own[c], srv[c], outs[c])
             rest == DelOwned(type, Tail(order), own, [srv EXCEPT ![c] = u.server], outs)
         IN [calls |-> Issued(c, u.calls) \o rest.calls, ostore |-> rest.ostore,
             flushed |-> <<c>> \o rest.flushed]

\* A field of the owner is read
Owner_read ==
    \E fo \in OwnerOutcomes(otype, cache, owner) :
    \E g \in {Owner_get(owner, fo)} :
       /\ owner' = g.owner
       /\ owned' = IF g.owner.fetched /\ ~owner.fetched
                   THEN [c \in Owned(otype) |-> NewContainer] ELSE owned
       /\ calls' = g.calls
       /\ raised' = g.raised
       /\ oop' = [op |-> "read", c |-> "self", items |-> {}, flushed |-> <<>>]
       /\ UNCHANGED <<cache, cvars, evars, rvars, xvars, pair, maker, otype, ostore>>

\* A field of the owner is assigned a value that differs: the setter
Owner_write ==
    \E fo \in OwnerOutcomes(otype, cache, owner) :
    \E out \in UpdateOutcomes(otype) :
    \E g \in {Owner_get(owner, fo)} :
       /\ owned' = IF g.owner.fetched /\ ~owner.fetched
                   THEN [c \in Owned(otype) |-> NewContainer] ELSE owned
       /\ oop' = [op |-> "write", c |-> "self", items |-> {}, flushed |-> <<>>]
       /\ UNCHANGED <<cache, cvars, evars, rvars, xvars, pair, maker, otype, ostore>>
       /\ IF g.raised
          THEN /\ owner' = g.owner
               /\ calls' = g.calls
               /\ raised' = TRUE
          ELSE IF Caching(cache)
          THEN /\ owner' = [g.owner EXCEPT !.modified = TRUE]
               /\ calls' = g.calls
               /\ raised' = FALSE
          ELSE /\ owner' = g.owner
               /\ calls' = g.calls \o Owner_ownUpdate(out)
               /\ raised' = (out # "ok")

\* owner.c.add(items) and owner.c.remove(items) for a container c of the
\* Container classes
Owned_op(op, c, items) ==
    \E fo \in OwnerOutcomes(otype, cache, owner) :
    \E g \in {Owner_get(owner, fo)} :
       /\ c \in Owned(otype) \ {"bugs"}
       /\ owner' = g.owner
       /\ oop' = [op |-> op, c |-> c, items |-> items, flushed |-> <<>>]
       /\ UNCHANGED <<cache, cvars, evars, rvars, xvars, pair, maker, otype>>
       /\ IF g.raised
          THEN /\ calls' = g.calls
               /\ raised' = TRUE
               /\ UNCHANGED <<owned, ostore>>
          ELSE LET own == IF owner.fetched THEN owned
                          ELSE [d \in Owned(otype) |-> NewContainer]
                   cls == ContainerClass(otype, c)
               IN \E ok \in OwnedGetOutcomes(cls, own[c]) :
                  \E l \in {Owned_items(cls, own[c], ostore[c], ok)} :
                  \E cur1 \in {IF op = "add" THEN AfterAdd(l.current, items)
                               ELSE AfterRemove(l.current, items)} :
                  \E out \in OwnedOutcomes(cls, [current |-> cur1, original |-> l.original]) :
                  \E r \in {Owned_change(cache, cls, own[c], ostore[c], l, cur1,
                                         cur1 # l.current, out)} :
                     /\ owned' = [own EXCEPT ![c] = r.o]
                     /\ ostore' = [ostore EXCEPT ![c] = r.server]
                     /\ calls' = g.calls \o Issued(c, r.calls)
                     /\ raised' = r.raised

\* owner.update()
Owner_flush ==
    \E outs \in OutChoices(otype, owned) :
    \E out \in UpdateOutcomes(otype) :
    \E u \in {Owner_update(otype, owner, owned, ostore, outs, out)} :
       /\ owner' = u.owner
       /\ owned' = u.owned
       /\ ostore' = u.ostore
       /\ calls' = u.calls
       /\ raised' = u.raised
       /\ oop' = [op |-> "update", c |-> "self", items |-> {}, flushed |-> u.flushed]
       /\ UNCHANGED <<cache, cvars, evars, rvars, xvars, pair, maker, otype>>

\* The last reference to the owner is dropped; the owner is then constructed
\* anew by id. An owner outside a cycle runs __del__ (update() inside "try:
\* ... except:"), then its containers run theirs, in any order
Owner_discard ==
    /\ owner' = [fetched |-> FALSE, modified |-> FALSE]
    /\ owned' = [c \in Owned(otype) |-> NewContainer]
    /\ raised' = FALSE
    /\ UNCHANGED <<cache, cvars, evars, rvars, xvars, pair, maker, otype>>
    /\ IF InCycle(otype, owner)
       THEN /\ calls' = <<>>
            /\ oop' = [op |-> "discard", c |-> "self", items |-> {}, flushed |-> <<>>]
            /\ UNCHANGED ostore
       ELSE \E outs \in OutChoices(otype, owned) :
            \E out \in UpdateOutcomes(otype) :
            \E u \in {Owner_update(otype, owner, owned, ostore, outs, out)} :
            \E outs2 \in OutChoices(otype, u.owned) :
            \E order \in Perms(IF owner.fetched THEN Owned(otype) ELSE {}) :
            \E d \in {DelOwned(otype, order, u.owned, u.ostore, outs2)} :
               /\ calls' = u.calls \o d.calls
               /\ ostore' = d.ostore
               /\ oop' = [op |-> "discard", c |-> "self", items |-> {},
                          flushed |-> u.flushed \o d.flushed]

-----------------------------------------------------------------------------
(* The caching level, given as an argument or taken from the environment *)

\* The characters a text of the environment is made of
Chars == {"-", "0", "3", "4", "x"}

Digits == {"0", "3", "4"}

DigitOf(ch) == CASE ch = "0" -> 0 [] ch = "3" -> 3 [] ch = "4" -> 4

EnvTexts == UNION {[1 .. n -> Chars] : n \in 0 .. MaxEnvLen}

\* What os.environ can hold for CACHE
EnvValues ==
    {[set |-> FALSE, text |-> <<>>]} \cup {[set |-> TRUE, text |-> t] : t \in EnvTexts}

\* The value of a text of digits, the first digit the most significant
RECURSIVE DigitsValue(_)
DigitsValue(t) ==
    IF t = <<>> THEN 0
    ELSE 10 * DigitsValue(SubSeq(t, 1, Len(t) - 1)) + DigitOf(t[Len(t)])

AllDigits(t) == t # <<>> /\ \A i \in DOMAIN t : t[i] \in Digits

\* int(text) returns: digits, after a sign or not
IsInt(t) == AllDigits(t) \/ (t # <<>> /\ t[1] = "-" /\ AllDigits(Tail(t)))

\* int(text)
IntOf(t) == IF t[1] = "-" THEN 0 - DigitsValue(Tail(t)) ELSE DigitsValue(t)

\* The arguments of setCacheLevel: <<>> stands for None
LevelArgs == {<<>>} \cup {<<n>> : n \in (CACHE_NONE - Beyond) .. (CACHE_ALL + Beyond)}

\* "try: _cache = int(os.environ["CACHE"]) except StandardError: _cache =
\* CACHE_OBJECTS": the KeyError of a variable not set and the ValueError of
\* int() are both caught
LevelFromEnv(e) == IF e.set /\ IsInt(e.text) THEN IntOf(e.text) ELSE CACHE_OBJECTS

\* "elif level >= 0 and level <= 3:"
InRange(level) == level >= 0 /\ level <= 3

\* setCacheLevel(level) where old is the level before
setCacheLevel(level, e, old) ==
    IF level = <<>>
    THEN [cache |-> LevelFromEnv(e), raised |-> FALSE]
    ELSE IF InRange(level[1])
    THEN [cache |-> level[1], raised |-> FALSE]
    ELSE [cache |-> old, raised |-> TRUE]

\* A call of setCacheLevel
Level_set(level) ==
    \E r \in {setCacheLevel(level, env, cache)} :
       /\ cache' = r.cache
       /\ raised' = r.raised
       /\ calls' = <<>>
       /\ lvl' = [op |-> "set", arg |-> level, prev |-> cache]
       /\ UNCHANGED <<cvars, evars, rvars, pair, maker, pvars, asg, env, bvars, enm>>

-----------------------------------------------------------------------------
(* A field that holds an entity, compared with the value assigned to it *)

\* The classes of the values in play: two entity classes and a plain string
ValueClasses == {"User", "Product", "str"}

\* An instance constructed by id, with its class; a string, told apart by the
\* number in its place
Value(class, id) ==
    IF class \in EntityTypes
    THEN [class |-> class, fields |-> Construct(class, id).fields]
    ELSE [class |-> class, fields |-> [id |-> id]]

AssignedValues == {Value(class, id) : class \in ValueClasses, id \in Ids}

\* "isinstance(other, Nitrate)"
IsNitrate(other) == other.class \in EntityTypes

\* Nitrate.__eq__(self, other)
Nitrate_eqOther(self, other) == IF ~IsNitrate(other) THEN FALSE ELSE Nitrate_eq(self, other)

\* Nitrate.__ne__(self, other)
Nitrate_neOther(self, other) == IF ~IsNitrate(other) THEN TRUE ELSE Nitrate_ne(self, other)

\* "old == new" as the interpreter evaluates it: __eq__ of the left operand,
\* that of the right one when the left is a string
Equal(old, new) ==
    IF IsNitrate(old) THEN Nitrate_eqOther(old, new)
    ELSE IF IsNitrate(new) THEN Nitrate_eqOther(new, old)
    ELSE old = new

\* "old != new"
NotEqual(old, new) ==
    IF IsNitrate(old) THEN Nitrate_neOther(old, new)
    ELSE IF IsNitrate(new) THEN Nitrate_neOther(new, old)
    ELSE old # new

\* The setter of the field, which is fetched: "if getattr(self, "_" + field)
\* != value:", then the value is stored and the instance marked or pushed
Assign_write(value) ==
    /\ UNCHANGED <<cache, cvars, evars, rvars, pair, maker, pvars, lvars, bvars, enm>>
    /\ IF ~NotEqual(asg.cur, value)
       THEN /\ asg' = [asg EXCEPT !.op = "write", !.val = value, !.res = FALSE]
            /\ calls' = <<>>
            /\ raised' = FALSE
       ELSE IF Caching(cache)
       THEN /\ asg' = [asg EXCEPT !.op = "write", !.val = value, !.res = TRUE,
                                  !.cur = value, !.modified = TRUE]
            /\ calls' = <<>>
            /\ raised' = FALSE
       ELSE \E ok \in BOOLEAN :
               /\ asg' = [asg EXCEPT !.op = "write", !.val = value, !.res = TRUE,
                                     !.cur = value]
               /\ calls' = <<Call("update", {}, ok)>>
               /\ raised' = ~ok

\* "field == value"
Assign_eq(value) ==
    /\ asg' = [asg EXCEPT !.op = "eq", !.val = value, !.res = Equal(asg.cur, value)]
    /\ calls' = <<>>
    /\ raised' = FALSE
    /\ UNCHANGED <<cache, cvars, evars, rvars, pair, maker, pvars, lvars, bvars, enm>>

\* Mutable.update of the instance that has the field
Assign_flush ==
    /\ UNCHANGED <<cache, cvars, evars, rvars, pair, maker, pvars, lvars, bvars, enm>>
    /\ IF ShouldUpdate(asg.modified)
       THEN \E ok \in BOOLEAN :
               /\ asg' = [asg EXCEPT !.op = "update", !.res = FALSE,
                                     !.modified = IF ok THEN FALSE ELSE @]
               /\ calls' = <<Call("update", {}, ok)>>
               /\ raised' = ~ok
       ELSE /\ asg' = [asg EXCEPT !.op = "update", !.res = FALSE]
            /\ calls' = <<>>
            /\ raised' = FALSE

-----------------------------------------------------------------------------
(* The bug list of a test case or a case run *)

BugNumbers == 1 .. NumBugs

\* "UNKNOWN", the id of a Bug made from a bug number
UNKNOWN == 0

\* hash["id"]: the id the store has given to the attachment of bug n
InternalId(n) == NumBugs + n

\* Bug(bug=n).attach(object): a new Bug of the same number, for the owner
Bug_attach(n) == [bug |-> n, id |-> UNKNOWN]

\* Bug(hash=...) of _get
Bug_fromHash(n) == [bug |-> n, id |-> InternalId(n)]

\* Bug.__eq__: by id if both are known, else by number, system and owner; the
\* bugs of one list have one system and one owner
Bug_eq(self, other) ==
    IF self.id # UNKNOWN /\ other.id # UNKNOWN
    THEN self.id = other.id
    ELSE self.bug = other.bug

\* Bug has no __ne__ of its own: Nitrate.__ne__, by id
Bug_ne(self, other) == self.id # other.id

\* The remote methods, by the class of the owner
BugMethod(type, m) ==
    CASE type = "TestCase" /\ m = "get" -> "TestCase.get_bugs"
      [] type = "TestCase" /\ m = "attach" -> "TestCase.attach_bug"
      [] type = "TestCase" /\ m = "detach" -> "TestCase.detach_bug"
      [] type = "CaseRun" /\ m = "get" -> "TestCaseRun.get_bugs"
      [] type = "CaseRun" /\ m = "attach" -> "TestCaseRun.attach_bug"
      [] type = "CaseRun" /\ m = "detach" -> "TestCaseRun.detach_bug"

\* Bugs._get: one call, then a Bug for every hash, here in the order of the
\* bug numbers
Bugs_get(type, srv, ok) ==
    IF ok
    THEN [calls |-> <<Call(BugMethod(type, "get"), {}, TRUE)>>, raised |-> FALSE,
          loaded |-> TRUE,
          current |-> [i \in 1 .. Cardinality(srv) |-> Bug_fromHash(Enum(srv)[i])]]
    ELSE [calls |-> <<Call(BugMethod(type, "get"), {}, FALSE)>>, raised |-> TRUE,
          loaded |-> FALSE, current |-> <<>>]

\* The _bugs property: "if self._current is NitrateNone: self._get()"
Bugs_bugs(type, b, srv, ok) ==
    IF b.loaded
    THEN [calls |-> <<>>, raised |-> FALSE, loaded |-> TRUE, current |-> b.current]
    ELSE Bugs_get(type, srv, ok)

BugsGetOutcomes(b) == IF b.loaded THEN {TRUE} ELSE BOOLEAN

\* "bug in self._bugs" of __contains__: == of the bug with each of the list
Bugs_contains(list, bug) == \E i \in DOMAIN list : Bug_eq(bug, list[i])

\* "[bugg for bugg in self if bugg == bug][0]"
Bugs_first(list, bug) ==
    list[CHOOSE i \in DOMAIN list :
            /\ Bug_eq(list[i], bug)
            /\ \A k \in DOMAIN list : Bug_eq(list[k], bug) => i <= k]

\* "[bugg for bugg in self if bugg != bug]"
Bugs_without(list, bug) == SelectSeq(list, LAMBDA bugg : Bug_ne(bugg, bug))

\* What the store holds once a detach call with the id given has returned
DetachedFrom(srv, id) == srv \ {n \in BugNumbers : InternalId(n) = id}

\* The tail shared by the handlers of the bug list
Bugs_done(op, n, res, g, cur) ==
    /\ bop' = [op |-> op, bug |-> n, res |-> res]
    /\ bugs' = [bugs EXCEPT !.loaded = g.loaded, !.current = cur]
    /\ UNCHANGED <<cache, cvars, evars, rvars, pair, maker, pvars, asg, lvars, btype, enm>>

\* Bugs.add(Bug(bug=n))
Bugs_add(n) ==
    \E ok \in BugsGetOutcomes(bugs) :
    \E g \in {Bugs_bugs(btype, bugs, bstore, ok)} :
    \E bug \in {Bug_attach(n)} :
       IF g.raised \/ Bugs_contains(g.current, bug)
       THEN /\ Bugs_done("add", n, FALSE, g, g.current)
            /\ calls' = g.calls
            /\ raised' = g.raised
            /\ UNCHANGED bstore
       ELSE \E aok \in BOOLEAN :
               /\ Bugs_done("add", n, aok, g, IF aok THEN Append(g.current, bug) ELSE g.current)
               /\ calls' = g.calls \o <<Call(BugMethod(btype, "attach"), {n}, aok)>>
               /\ raised' = ~aok
               /\ bstore' = IF aok THEN bstore \cup {n} ELSE bstore

\* Bugs.remove(Bug(bug=n))
Bugs_remove(n) ==
    \E ok \in BugsGetOutcomes(bugs) :
    \E g \in {Bugs_bugs(btype, bugs, bstore, ok)} :
       IF g.raised \/ ~Bugs_contains(g.current, Bug_attach(n))
       THEN /\ Bugs_done("remove", n, FALSE, g, g.current)
            /\ calls' = g.calls
            /\ raised' = g.raised
            /\ UNCHANGED bstore
       ELSE \E bug \in {Bugs_first(g.current, Bug_attach(n))} :
            \E dok \in BOOLEAN :
               /\ Bugs_done("remove", n, dok, g,
                            IF dok THEN Bugs_without(g.current, bug) ELSE g.current)
               /\ calls' = g.calls \o <<Call(BugMethod(btype, "detach"), {bug.id}, dok)>>
               /\ raised' = ~dok
               /\ bstore' = IF dok THEN DetachedFrom(bstore, bug.id) ELSE bstore

\* Bug(bug=n) in bugs
Bugs_in(n) ==
    \E ok \in BugsGetOutcomes(bugs) :
    \E g \in {Bugs_bugs(btype, bugs, bstore, ok)} :
       /\ Bugs_done("in", n, ~g.raised /\ Bugs_contains(g.current, Bug_attach(n)), g, g.current)
       /\ calls' = g.calls
       /\ raised' = g.raised
       /\ UNCHANGED bstore

\* Mutable.update of the bug list; Bugs._update is "pass"
Bugs_flush ==
    /\ bop' = [op |-> "update", bug |-> 0, res |-> FALSE]
    /\ bugs' = [bugs EXCEPT !.modified = IF ShouldUpdate(@) THEN FALSE ELSE @]
    /\ calls' = <<>>
    /\ raised' = FALSE
    /\ UNCHANGED <<cache, cvars, evars, rvars, pair, maker, pvars, asg, lvars, btype, bstore, enm>>

-----------------------------------------------------------------------------
(* The enumerations: a value is constructed from an id or from a name *)

EnumerationClasses ==
    {"PlanType", "Priority", "PlanStatus", "RunStatus", "CaseStatus", "Status"}

\* _plantypes, _priorities, _statuses, _casestatuses: the list of names of
\* each class; the first element of a list has index 0
Names(class) ==
    CASE class = "PlanType" ->
            <<"Null", "Unit", "Integration", "Function", "System", "Acceptance",
              "Installation", "Performance", "Product", "Interoperability", "Smoke",
              "Regression", "NotExist", "i18n/l10n", "Load", "Sanity", "Functionality",
              "Stress", "Stability", "Density", "Benchmark", "testtest", "test11",
              "Place Holder", "Recovery", "Component", "General", "Release">>
      [] class = "Priority" -> <<"P0", "P1", "P2", "P3", "P4", "P5">>
      [] class = "PlanStatus" -> <<"DISABLED", "ENABLED">>
      [] class = "RunStatus" -> <<"RUNNING", "FINISHED">>
      [] class = "CaseStatus" -> <<"PAD", "PROPOSED", "CONFIRMED", "DISABLED", "NEED_UPDATE">>
      [] class = "Status" ->
            <<"PAD", "IDLE", "PASSED", "FAILED", "RUNNING", "PAUSED", "BLOCKED",
              "ERROR", "WAIVED">>

\* list.index(name): the index of the first element equal to name
ListIndex(list, name) ==
    (CHOOSE i \in DOMAIN list : list[i] = name /\ \A k \in DOMAIN list : list[k] = name => i <= k) - 1

\* The arguments: an integer or a name
IntArg(n) == [kind |-> "int", n |-> n, name |-> ""]
NameArg(name) == [kind |-> "name", n |-> 0, name |-> name]

\* Texts "^[-0-9: ]+$" matches, and texts it does not match
StopDates == {"2011-07-27 15:14"}
OtherNames == {"None", "bogus", "p1", ""}

EnumerationArgs(class) ==
    {IntArg(n) : n \in (0 - Beyond) .. (Len(Names(class)) + Beyond)}
       \cup {NameArg(x) : x \in Range(Names(class)) \cup StopDates \cup OtherNames}

\* The check of a numeric id in __init__ of each class
ValidId(class, n) ==
    CASE class = "PlanType" -> ~(n < 1 \/ n > 28 \/ n = 12)
      [] class = "Priority" -> ~(n < 1 \/ n > 5)
      [] class = "PlanStatus" -> n \in {0, 1}
      [] class = "RunStatus" -> n \in {0, 1}
      [] class = "CaseStatus" -> ~(n < 1 \/ n > 4)
      [] class = "Status" -> ~(n < 1 \/ n > 8)

Refused == [made |-> FALSE, id |-> 0]
Constructed_as(id) == [made |-> TRUE, id |-> id]

\* The branch of __init__ for a name: the index in the list, NitrateError
\* for the ValueError of index(); RunStatus compares the name itself
NameToId(class, name) ==
    IF class = "RunStatus"
    THEN IF name = "RUNNING" \/ name = "None" THEN Constructed_as(0)
         ELSE IF name = "FINISHED" \/ name \in StopDates THEN Constructed_as(1)
         ELSE Refused
    ELSE IF name \in Range(Names(class))
    THEN Constructed_as(ListIndex(Names(class), name))
    ELSE Refused

\* __init__ of the six classes
Enumeration_init(class, arg) ==
    IF arg.kind = "int"
    THEN IF ValidId(class, arg.n) THEN Constructed_as(arg.n) ELSE Refused
    ELSE NameToId(class, arg.name)

\* Class(arg)
Enumeration_construct(class, arg) ==
    \E r \in {Enumeration_init(class, arg)} :
       /\ enm' = [class |-> class, arg |-> arg, made |-> r.made, id |-> r.id]
       /\ raised' = ~r.made
       /\ calls' = <<>>
       /\ UNCHANGED <<cache, cvars, evars, rvars, pair, maker, pvars, asg, lvars, bvars>>

-----------------------------------------------------------------------------
(* Specifications *)

InitContainer ==
    /\ ctype \in ContainerTypes
    /\ current = Unloaded
    /\ original = Unloaded
    /\ cmodified = FALSE
    /\ server \in SUBSET Items
    /\ lastOp = "init"
    /\ base = Unloaded
    /\ bufferedOnly = TRUE
    /\ p5 = 0

\* An entity constructed by id, not yet fetched
InitEntity ==
    /\ etype \in EntityTypes
    /\ fields = InitFields(etype)
    /\ modified = FALSE
    /\ store = [a \in GetSets(etype) |-> 1]
    /\ wfields \in {S \in SUBSET ReadWrite(etype) : Cardinality(S) <= MaxWriteFields}
    /\ result = NitrateNone
    /\ fetched = FALSE
    /\ eop = [op |-> "init", f |-> "", v |-> NitrateNone]

InitShared ==
    /\ cache \in Levels
    /\ calls = <<>>
    /\ raised = FALSE

\* No instance of the class exists yet; the store holds records for some ids
InitRegistry ==
    /\ rtype \in EntityTypes
    /\ rfield \in ClientFields(rtype)
    /\ heap = <<>>
    /\ registry = [i \in Ids |-> 0]
    /\ refs = [k \in Clients |-> 0]
    /\ rstore \in {[i \in S |-> StoreRecord(rtype, i)] :
                      S \in IF Prefetches(rtype) THEN SUBSET Ids ELSE {Ids}}
    /\ pc = [k \in Clients |-> "idle"]
    /\ given = [k \in Clients |-> 0]
    /\ bulkCalls = 0
    /\ interleaved = FALSE
    /\ levelChanged = FALSE
    /\ rop = [op |-> "init", k |-> 0, v |-> NitrateNone]
    /\ rresult = NitrateNone

NoRegistry ==
    /\ rtype = "Category"
    /\ rfield = "name"
    /\ heap = <<>>
    /\ registry = [i \in Ids |-> 0]
    /\ refs = [k \in Clients |-> 0]
    /\ rstore = [i \in {} |-> StoreRecord(rtype, i)]
    /\ pc = [k \in Clients |-> "idle"]
    /\ given = [k \in Clients |-> 0]
    /\ bulkCalls = 0
    /\ interleaved = FALSE
    /\ levelChanged = FALSE
    /\ rop = [op |-> "init", k |-> 0, v |-> NitrateNone]
    /\ rresult = NitrateNone

\* An owner constructed by id: it has no containers yet
InitOwner ==
    /\ otype \in MutableTypes
    /\ owner = [fetched |-> FALSE, modified |-> FALSE]
    /\ owned = [c \in Owned(otype) |-> NewContainer]
    /\ ostore \in [Owned(otype) -> SUBSET Members]
    /\ \A c \in Owned(otype) : c = "bugs" => ostore[c] = {}
    /\ oop = [op |-> "init", c |-> "self", items |-> {}, flushed |-> <<>>]

NoOwner ==
    /\ otype = "TestRun"
    /\ owner = [fetched |-> FALSE, modified |-> FALSE]
    /\ owned = [c \in Owned(otype) |-> NewContainer]
    /\ ostore = [c \in Owned(otype) |-> {}]
    /\ oop = [op |-> "init", c |-> "self", items |-> {}, flushed |-> <<>>]

\* setCacheLevel is not called and the variable CACHE is not set
NoLevel ==
    /\ env = [set |-> FALSE, text |-> <<>>]
    /\ lvl = [op |-> "init", arg |-> <<>>, prev |-> CACHE_OBJECTS]

\* The field holds a user
InitAssign ==
    \E id \in Ids :
       asg = [cur |-> Value("User", id), val |-> Value("User", id), modified |-> FALSE,
              op |-> "init", res |-> FALSE]

\* Nothing is assigned
NoAssign ==
    asg = [cur |-> Value("User", 1), val |-> Value("User", 1), modified |-> FALSE,
           op |-> "init", res |-> FALSE]

\* The bug list of a test case constructed by id: Bugs.__init__
InitBugs ==
    /\ btype \in {"TestCase", "CaseRun"}
    /\ bugs = [loaded |-> FALSE, current |-> <<>>, modified |-> FALSE]
    /\ bstore \in SUBSET BugNumbers
    /\ bop = [op |-> "init", bug |-> 0, res |-> FALSE]

NoBugs ==
    /\ btype = "TestCase"
    /\ bugs = [loaded |-> FALSE, current |-> <<>>, modified |-> FALSE]
    /\ bstore = {}
    /\ bop = [op |-> "init", bug |-> 0, res |-> FALSE]

\* No enumeration value is constructed
NoEnum == enm = [class |-> "Priority", arg |-> IntArg(0), made |-> FALSE, id |-> 0]

NoExtra ==
    /\ NoLevel
    /\ NoAssign
    /\ NoBugs
    /\ NoEnum

\* No record has been created
NoMaker ==
    maker = [done |-> FALSE, type |-> "TestPlan", given |-> {}, error |-> "none",
             issued |-> FALSE, created |-> 0]

\* No comparison is made
NoPair ==
    pair = [a |-> Construct(rtype, NitrateNone), b |-> Construct(rtype, NitrateNone),
            same |-> TRUE, op |-> "init", res |-> FALSE]

\* Two instances of the class constructed by id, or without id where the
\* class allows it, or one instance referred to twice
InitPair ==
    \E ia, ib \in Ids \cup (IF Prefetches(rtype) THEN {NitrateNone} ELSE {}) :
    \E same \in BOOLEAN :
       /\ same => ia = ib
       /\ pair = [a |-> Construct(rtype, ia), b |-> Construct(rtype, ib),
                  same |-> same, op |-> "init", res |-> FALSE]

NoContainer ==
    /\ ctype = "PlanTags"
    /\ current = Unloaded
    /\ original = Unloaded
    /\ cmodified = FALSE
    /\ server = {}
    /\ lastOp = "init"
    /\ base = Unloaded
    /\ bufferedOnly = TRUE
    /\ p5 = 0

NoEntity ==
    /\ etype = "TestPlan"
    /\ fields = InitFields(etype)
    /\ modified = FALSE
    /\ store = [a \in GetSets(etype) |-> 1]
    /\ wfields = {}
    /\ result = NitrateNone
    /\ fetched = FALSE
    /\ eop = [op |-> "init", f |-> "", v |-> NitrateNone]

InitR ==
    /\ InitShared
    /\ InitRegistry
    /\ NoContainer
    /\ NoEntity
    /\ NoPair
    /\ NoMaker
    /\ NoOwner
    /\ NoExtra

InitQ ==
    /\ InitShared
    /\ InitRegistry
    /\ NoContainer
    /\ NoEntity
    /\ InitPair
    /\ NoMaker
    /\ NoOwner
    /\ NoExtra

Init ==
    /\ InitShared
    /\ InitContainer
    /\ NoRegistry
    /\ NoPair
    /\ NoMaker
    /\ NoOwner
    /\ NoExtra
    /\ etype = "TestPlan"
    /\ fields = InitFields(etype)
    /\ modified = FALSE
    /\ store = [a \in GetSets(etype) |-> 1]
    /\ wfields = {}
    /\ result = NitrateNone
    /\ fetched = FALSE
    /\ eop = [op |-> "init", f |-> "", v |-> NitrateNone]

InitE ==
    /\ InitShared
    /\ InitEntity
    /\ NoRegistry
    /\ NoPair
    /\ NoMaker
    /\ NoOwner
    /\ NoExtra
    /\ ctype = "PlanTags"
    /\ current = Unloaded
    /\ original = Unloaded
    /\ cmodified = FALSE
    /\ server = {}
    /\ lastOp = "init"
    /\ base = Unloaded
    /\ bufferedOnly = TRUE
    /\ p5 = 0

DoAdd == \E items \in SUBSET Items \ {{}} : Container_add(items)
DoRemove == \E items \in SUBSET Items \ {{}} : Container_remove(items)
DoSetCacheLevel ==
    \E level \in Levels :
        /\ SetCacheLevel(level)
        /\ lastOp' = "setCacheLevel"
        /\ p5' = 0
        /\ UNCHANGED <<ctype, current, original, cmodified, server, base, bufferedOnly, evars, rvars, ovars>>

NextContainer ==
    \/ Container_access
    \/ DoAdd
    \/ DoRemove
    \/ Container_flush
    \/ DoSetCacheLevel

SpecContainer == Init /\ [][NextContainer]_vars

DoRead == \E f \in Declared(etype) : Entity_read(f)
DoWrite == \E f \in wfields : \E v \in Values : Entity_write(f, v)
DoSetCacheLevelE ==
    \E level \in Levels :
        /\ SetCacheLevel(level)
        /\ eop' = [op |-> "setCacheLevel", f |-> "", v |-> NitrateNone]
        /\ result' = NitrateNone
        /\ UNCHANGED <<cvars, rvars, ovars, etype, fields, modified, store, wfields, fetched>>

NextEntity ==
    \/ DoRead
    \/ DoWrite
    \/ Entity_flush
    \/ DoSetCacheLevelE

SpecEntity == InitE /\ [][NextEntity]_vars

DoLookup ==
    \E k \in Clients :
       \E id \in LookupIds \cup (IF Prefetches(rtype) THEN {NitrateNone} ELSE {}) :
          Registry_lookup(k, id)
DoBulkReturn == \E k \in Clients : Registry_bulkReturn(k)
DoReadR == \E k \in Clients : Registry_read(k)
DoWriteR == \E k \in Clients : \E v \in Values : Registry_write(k, v)
DoFlushR == \E k \in Clients : Registry_flush(k)
DoDrop == \E k \in Clients : Registry_drop(k)
DoSetCacheLevelR ==
    \E level \in Levels :
        /\ SetCacheLevel(level)
        /\ interleaved' = (interleaved \/ \E j \in Clients : pc[j] = "bulk")
        /\ levelChanged' = (levelChanged \/ level # cache)
        /\ UNCHANGED ovars
        /\ rop' = [op |-> "setCacheLevel", k |-> 0, v |-> NitrateNone]
        /\ rresult' = NitrateNone
        /\ UNCHANGED <<cvars, evars, rtype, rfield, heap, registry, refs, rstore,
                       pc, given, bulkCalls>>

NextRegistry ==
    \/ DoLookup
    \/ DoBulkReturn
    \/ DoReadR
    \/ DoWriteR
    \/ DoFlushR
    \/ DoDrop
    \/ DoSetCacheLevelR

SpecRegistry == InitR /\ [][NextRegistry]_vars

DoReadQ == \E x \in 1 .. 2 : Equality_read(x)

NextEquality ==
    \/ Equality_eq
    \/ Equality_ne
    \/ Equality_hash
    \/ DoReadQ

SpecEquality == InitQ /\ [][NextEquality]_vars

InitM ==
    /\ InitShared
    /\ NoRegistry
    /\ NoContainer
    /\ NoEntity
    /\ NoPair
    /\ NoMaker
    /\ NoOwner
    /\ NoExtra

DoCreate ==
    \E type \in CreateTypes : \E args \in SUBSET Arguments(type) :
       Entity_create(type, args)

DoSetCacheLevelM ==
    \E level \in Levels :
        /\ SetCacheLevel(level)
        /\ UNCHANGED <<cvars, evars, rvars, ovars>>

NextCreate ==
    \/ DoCreate
    \/ DoSetCacheLevelM

SpecCreate == InitM /\ [][NextCreate]_vars

InitO ==
    /\ InitShared
    /\ NoRegistry
    /\ NoContainer
    /\ NoEntity
    /\ NoPair
    /\ NoMaker
    /\ InitOwner
    /\ NoExtra

DoOwnedAdd == \E c \in Owned(otype) : \E x \in Members : Owned_op("add", c, {x})
DoOwnedRemove == \E c \in Owned(otype) : \E x \in Members : Owned_op("remove", c, {x})

DoSetCacheLevelO ==
    \E level \in Levels :
        /\ SetCacheLevel(level)
        /\ oop' = [op |-> "setCacheLevel", c |-> "self", items |-> {}, flushed |-> <<>>]
        /\ UNCHANGED <<cvars, evars, rvars, xvars, pair, maker, otype, owner, owned, ostore>>

NextOwner ==
    \/ Owner_read
    \/ Owner_write
    \/ DoOwnedAdd
    \/ DoOwnedRemove
    \/ Owner_flush
    \/ Owner_discard
    \/ DoSetCacheLevelO

SpecOwner == InitO /\ [][NextOwner]_vars

\* The module has been imported: "setCacheLevel()" has run once
InitL ==
    /\ env \in EnvValues
    /\ cache = LevelFromEnv(env)
    /\ calls = <<>>
    /\ raised = FALSE
    /\ lvl = [op |-> "init", arg |-> <<>>, prev |-> CACHE_OBJECTS]
    /\ NoRegistry
    /\ NoContainer
    /\ NoEntity
    /\ NoPair
    /\ NoMaker
    /\ NoOwner
    /\ NoAssign
    /\ NoBugs
    /\ NoEnum

NextLevel == \E level \in LevelArgs : Level_set(level)

SpecLevel == InitL /\ [][NextLevel]_vars

InitA ==
    /\ InitShared
    /\ NoRegistry
    /\ NoContainer
    /\ NoEntity
    /\ NoPair
    /\ NoMaker
    /\ NoOwner
    /\ NoLevel
    /\ NoBugs
    /\ NoEnum
    /\ InitAssign

DoAssignWrite == \E value \in AssignedValues : Assign_write(value)
DoAssignEq == \E value \in AssignedValues : Assign_eq(value)

NextAssign ==
    \/ DoAssignWrite
    \/ DoAssignEq
    \/ Assign_flush

SpecAssign == InitA /\ [][NextAssign]_vars

InitB ==
    /\ InitShared
    /\ NoRegistry
    /\ NoContainer
    /\ NoEntity
    /\ NoPair
    /\ NoMaker
    /\ NoOwner
    /\ NoLevel
    /\ NoAssign
    /\ NoEnum
    /\ InitBugs

DoBugsAdd == \E n \in BugNumbers : Bugs_add(n)
DoBugsRemove == \E n \in BugNumbers : Bugs_remove(n)
DoBugsIn == \E n \in BugNumbers : Bugs_in(n)

NextBugs ==
    \/ DoBugsAdd
    \/ DoBugsRemove
    \/ DoBugsIn
    \/ Bugs_flush

SpecBugs == InitB /\ [][NextBugs]_vars

InitN ==
    /\ InitShared
    /\ NoRegistry
    /\ NoContainer
    /\ NoEntity
    /\ NoPair
    /\ NoMaker
    /\ NoOwner
    /\ NoLevel
    /\ NoAssign
    /\ NoBugs
    /\ NoEnum

NextEnumeration ==
    \E class \in EnumerationClasses : \E arg \in EnumerationArgs(class) :
       Enumeration_construct(class, arg)

SpecEnumeration == InitN /\ [][NextEnumeration]_vars

-----------------------------------------------------------------------------
(* Claims about the container *)

SubmittedAdds(cs) == UNION {cs[i].items : i \in {j \in DOMAIN cs : cs[j].m = "add"}}
SubmittedRemoves(cs) == UNION {cs[i].items : i \in {j \in DOMAIN cs : cs[j].m = "remove"}}
NumCalls(cs, m) == Cardinality({i \in DOMAIN cs : cs[i].m = m})
\* The last handler ran a reconciliation and one of its calls faulted
FlushFailed == raised /\ \E i \in DOMAIN calls : calls[i].m \in {"add", "remove"} /\ ~calls[i].ok

\* C1: a successful update() of a loaded container whose add/remove calls
\* since the baseline was taken all ran at a buffered level submits exactly
\* current minus baseline for addition and baseline minus current for
\* removal, and leaves original equal to current
C1_FlushSubmitsNetDelta ==
    [][(lastOp' = "update" /\ ~raised' /\ current # Unloaded /\ bufferedOnly)
        => /\ SubmittedAdds(calls') = current \ base
           /\ SubmittedRemoves(calls') = base \ current
           /\ current' = current
           /\ original' = current]_vars

C1_Witness ==
    /\ lastOp = "update" /\ ~raised /\ bufferedOnly
    /\ SubmittedAdds(calls) # {} /\ SubmittedRemoves(calls) # {}
    /\ original = current

\* C2 as stated: loaded with {a, b}; remove(b), add(c), remove(a), add(b),
\* flush gives exactly one add call with {b, c} and one remove call with {a}
C2_ScenarioP5 ==
    p5 = 6 => calls = <<Call("add", {2, 3}, TRUE), Call("remove", {1}, TRUE)>>

\* C2 amended: the same scenario gives exactly one add call with {c}, the net
\* addition from {a, b} to {b, c}, and one remove call with {a}
C2_ScenarioNetDelta ==
    p5 = 6 => calls = <<Call("add", {3}, TRUE), Call("remove", {1}, TRUE)>>

C2_Witness == p5 = 6 /\ lastOp = "update" /\ current = {2, 3}

\* C3 as stated: a handler issues at most one add call and at most one
\* remove call, whatever the class of the container
C3_AtMostOneCallEach ==
    NumCalls(calls, "add") <= 1 /\ NumCalls(calls, "remove") <= 1

\* C3 amended: at most one add call; the tag classes at most one remove call;
\* TestPlans and TestCases one remove call per removed member; no call
\* carries an empty set
C3_CallsPerFlush ==
    /\ NumCalls(calls, "add") <= 1
    /\ ctype \in TagTypes => NumCalls(calls, "remove") <= 1
    /\ ctype \notin TagTypes =>
          /\ \A i \in DOMAIN calls : calls[i].m = "remove" => Cardinality(calls[i].items) = 1
          /\ NumCalls(calls, "remove") = Cardinality(SubmittedRemoves(calls))
    /\ \A i \in DOMAIN calls : calls[i].m \in {"add", "remove"} => calls[i].items # {}

C3_Witness ==
    /\ lastOp = "update" /\ ~raised
    /\ ctype = "TestPlans"
    /\ NumCalls(calls, "add") = 1
    /\ NumCalls(calls, "remove") >= 2

\* C4: among the calls of one flush every add call comes before, and has
\* returned before, every remove call
C4_AddBeforeRemove ==
    \A i, j \in DOMAIN calls :
        (calls[i].m = "add" /\ calls[j].m = "remove") => (i < j /\ calls[i].ok)

C4_Witness ==
    /\ lastOp = "update"
    /\ \E i, j \in DOMAIN calls : calls[i].m = "add" /\ calls[j].m = "remove"

\* C5: after a flush that failed in its add or remove call, at any caching
\* level, the next update() submits current minus original for addition and,
\* unless that add faults, members of original minus current for removal
C5_FailedFlushResubmitted ==
    [][(FlushFailed /\ lastOp' = "update")
        => /\ SubmittedAdds(calls') = current \ original
           /\ (\A i \in DOMAIN calls' : calls'[i].ok)
                 => SubmittedRemoves(calls') = original \ current]_vars

\* C24: at a buffered level, after add(items) returns every item is a member
\* of the container, and after remove(items) returns no item is, before any
\* flush
C24_ContainsAfterChange ==
    [][\A items \in SUBSET Items \ {{}} :
          /\ (lastOp' = "add" /\ ~raised' /\ Caching(cache) /\ Container_add(items))
                => (current' # Unloaded /\ items \subseteq current')
          /\ (lastOp' = "remove" /\ ~raised' /\ Caching(cache) /\ Container_remove(items))
                => (current' # Unloaded /\ items \cap current' = {})]_vars

\* An added item is a member while the store has not been told of it
C24_Witness ==
    /\ lastOp = "add"
    /\ ~raised
    /\ Caching(cache)
    /\ cmodified
    /\ current # Unloaded
    /\ current \ original # {}
    /\ current \ server # {}

\* The get-relation calls among the calls of a handler
GetRelationCalls(cs) == NumCalls(cs, "get") + NumCalls(cs, "get_ids")

\* What C25 says of a handler that ran on a loaded container, and of the sets
\* a load leaves
LoadedStaysLoaded ==
    /\ (current # Unloaded /\ lastOp' \in {"items", "add", "remove", "update"})
          => (GetRelationCalls(calls') = 0 /\ current' # Unloaded /\ original' # Unloaded)
    /\ (current = Unloaded /\ lastOp' = "items" /\ ~raised')
          => (current' = server /\ original' = server)
    /\ (current = Unloaded /\ lastOp' = "add" /\ ~raised')
          => (current' # Unloaded /\ server \subseteq current')
    /\ (current = Unloaded /\ lastOp' = "remove" /\ ~raised')
          => (current' # Unloaded /\ current' \subseteq server)
    /\ (current = Unloaded /\ lastOp' \in {"add", "remove"} /\ ~raised' /\ Caching(cache))
          => original' = server

\* C25 as stated: a membership test, size query, iteration, add or remove
\* that returns on an unloaded container has issued exactly one get-relation
\* call and left current the fetched set and original an equal set of its
\* own; on a loaded container no handler issues a get-relation call
C25_LoadWithOneCall ==
    [][/\ LoadedStaysLoaded
       /\ (current = Unloaded /\ lastOp' \in {"items", "add", "remove"} /\ ~raised')
             => GetRelationCalls(calls') = 1]_vars

\* C25 amended: the same, but TestCases issues a second get-relation call,
\* by ids, when its first one faults
C25_LoadOnce ==
    [][/\ LoadedStaysLoaded
       /\ (current = Unloaded /\ lastOp' \in {"items", "add", "remove"} /\ ~raised')
             => /\ NumCalls(calls', "get") = 1
                /\ NumCalls(calls', "get_ids") = IF calls'[1].ok THEN 0 ELSE 1
                /\ NumCalls(calls', "get_ids") = 1 => ctype = "TestCases"]_vars

\* TestCases has been loaded by a membership test whose first get-relation
\* call faulted and whose second one returned the members
C25_Witness ==
    /\ lastOp = "items"
    /\ ~raised
    /\ GetRelationCalls(calls) = 2
    /\ current = server
    /\ original = server
    /\ server # {}

-----------------------------------------------------------------------------
(* Claims about the entities *)

BufferedLevels == {CACHE_CHANGES, CACHE_OBJECTS, CACHE_ALL}

C7_WriteNoRemoteCall ==
    [][(/\ eop'.op = "write"
        /\ ~raised'
        /\ eop'.v # (IF fields[eop'.f] # NitrateNone THEN fields[eop'.f]
                     ELSE IF eop'.f \in DOMAIN store THEN store[eop'.f]
                     ELSE NitrateNone))
       => IF cache \in BufferedLevels
          THEN modified' /\ calls' = <<>>
          ELSE NumCalls(calls', "update") = 1 /\ ~modified']_vars

\* C7 amended: a write that changes the value and returns stores the value,
\* sets dirty and issues no remote update call at the buffered levels (a fetch
\* is its only possible call); at NONE it issues the update once and leaves
\* dirty as it was (the fetch a partly materialized entity makes while the
\* update is built may put the store's value back in the field)
C7_WriteBuffersOrUpdates ==
    [][(/\ eop'.op = "write"
        /\ ~raised'
        /\ eop'.v # (IF fields[eop'.f] # NitrateNone THEN fields[eop'.f]
                     ELSE IF eop'.f \in DOMAIN store THEN store[eop'.f]
                     ELSE NitrateNone))
       => IF cache \in BufferedLevels
             THEN /\ fields'[eop'.f] = eop'.v
                  /\ modified'
                  /\ NumCalls(calls', "update") = 0
                  /\ store' = store
             ELSE /\ NumCalls(calls', "update") = 1
                  /\ modified' = modified]_vars

\* A write at NONE on an entity left dirty at a buffered level has issued the
\* update, and dirty is still set
C7_Witness ==
    /\ eop.op = "write"
    /\ ~raised
    /\ cache = CACHE_NONE
    /\ modified
    /\ NumCalls(calls, "update") = 1

\* C8: writing to a materialized field the value it holds changes neither the
\* stored values nor dirty, and issues no remote call, at every level
C8_EqualWriteNoOp ==
    [][(/\ eop'.op = "write"
        /\ eop'.f \in DOMAIN fields
        /\ fields[eop'.f] # NitrateNone
        /\ fields[eop'.f] = eop'.v)
       => /\ <<fields', modified', store'>> = <<fields, modified, store>>
          /\ calls' = <<>>
          /\ ~raised']_vars

\* A write at a buffered level of the value the fetched field holds has left
\* the entity clean
C8_Witness ==
    /\ eop.op = "write"
    /\ ~raised
    /\ calls = <<>>
    /\ cache \in BufferedLevels
    /\ fetched
    /\ fields[eop.f] = eop.v
    /\ ~modified

\* C9: once the fetch of an entity constructed by id has succeeded, a read of
\* any declared field triggers no further fetch
C9_FetchOnce ==
    [][(eop'.op = "read" /\ fetched) => NumCalls(calls', "get") = 0]_vars

\* C10: a read that returns on an entity constructed by id returns a
\* materialized value, never the sentinel
C10_ReadNeverSentinel ==
    (eop.op = "read" /\ ~raised) => result # NitrateNone

\* C11: in every state the fields an entity's fetch assigns are either all
\* still the sentinel or all populated, also after a fetch that raised
C11_AllOrNothing ==
    \/ \A a \in GetSets(etype) \ {"id"} : a \in DOMAIN fields => fields[a] = NitrateNone
    \/ \A a \in GetSets(etype) : a \in DOMAIN fields /\ fields[a] # NitrateNone

-----------------------------------------------------------------------------
(* Claims about the cache dictionaries *)

\* A construction by a client has returned in this step
Constructed == rop'.op \in {"lookup", "bulkReturn"} /\ ~raised'
\* The construction was given an id
ConstructedById == Constructed /\ given'[rop'.k] # NitrateNone
\* The id of the instance a client holds
IdOf(h, r) == h[r].fields["id"]
\* Every field the fetch assigns is populated
Materialized(o) ==
    \A a \in GetSets(rtype) : a \in DOMAIN o.fields /\ o.fields[a] # NitrateNone

\* C12: while the level is OBJECTS or ALL from the start, a construction of a
\* class with a dictionary returns the instance every other client holds for
\* the id and, when the dictionary already held the id (also after the client
\* that created it dropped it), that very instance; a read of a field that is
\* already populated issues no fetch
C12_SharedInstance ==
    [][(/\ HasRegistry(rtype)
        /\ cache \in {CACHE_OBJECTS, CACHE_ALL}
        /\ ~levelChanged
        /\ ~interleaved')
       => /\ ConstructedById =>
                LET k == rop'.k
                    id == given'[k]
                IN /\ \A j \in Clients \ {k} :
                         (refs'[j] # 0 /\ given'[j] = id) => refs'[j] = refs'[k]
                   /\ registry[id] # 0 =>
                         /\ refs'[k] = registry'[id]
                         /\ heap'[refs'[k]] = heap[registry[id]]
          /\ (/\ rop'.op = "read"
              /\ heap[refs[rop'.k]].fields[rfield] # NitrateNone)
             => NumCalls(calls', "get") = 0]_vars

\* C13: at level NONE or CHANGES a construction by id leaves the dictionary
\* as it was and returns a new instance nothing else refers to, and a read on
\* a newly constructed instance that returns has issued exactly one fetch
C13_FreshBelowObjects ==
    [][(cache \in {CACHE_NONE, CACHE_CHANGES}) =>
        /\ rop'.op = "lookup" =>
              /\ registry' = registry
              /\ \A j \in Clients \ {rop'.k} : refs'[j] # refs'[rop'.k]
              /\ \A i \in Ids : registry'[i] # refs'[rop'.k]
              /\ \A a \in DOMAIN heap'[refs'[rop'.k]].fields :
                    a # "id" => heap'[refs'[rop'.k]].fields[a] = NitrateNone
        /\ (/\ rop'.op = "read"
            /\ ~raised'
            /\ \A a \in DOMAIN heap[refs[rop'.k]].fields :
                  a # "id" => heap[refs[rop'.k]].fields[a] = NitrateNone)
           => NumCalls(calls', "get") = 1]_vars

\* Two clients have constructed the same id of a class with a dictionary
\* below OBJECTS and each read has fetched: two instances, nothing cached
C13_Witness ==
    /\ cache \in {CACHE_NONE, CACHE_CHANGES}
    /\ HasRegistry(rtype)
    /\ rop.op = "read"
    /\ NumCalls(calls, "get") = 1
    /\ \A k \in Clients : refs[k] # 0 /\ Materialized(heap[refs[k]])
    /\ refs[1] # refs[2]
    /\ IdOf(heap, refs[1]) = IdOf(heap, refs[2])
    /\ RegistryEmpty(registry)

\* C14: at level NONE a construction returns a new instance equal to the
\* others of its id, a write changes no other instance, and a write that
\* changes the value and returns has sent the value to the store
C14_IndependentAndImmediate ==
    [][cache = CACHE_NONE =>
        /\ rop'.op = "lookup" =>
              \A j \in Clients \ {rop'.k} :
                 /\ refs'[j] # refs'[rop'.k]
                 /\ (refs'[j] # 0 /\ IdOf(heap', refs'[j]) = IdOf(heap', refs'[rop'.k]))
                       => Nitrate_eq(heap'[refs'[j]], heap'[refs'[rop'.k]])
        /\ (rop'.op = "write" /\ ~raised') =>
              LET k == rop'.k
                  id == IdOf(heap, refs[k])
                  old == IF heap[refs[k]].fields[rfield] # NitrateNone
                         THEN heap[refs[k]].fields[rfield]
                         ELSE IF rfield \in DOMAIN rstore[id] THEN rstore[id][rfield]
                         ELSE NitrateNone
              IN /\ \A j \in Clients \ {k} :
                       refs[j] # 0 => heap'[refs'[j]] = heap[refs[j]]
                 /\ rop'.v # old =>
                       (rfield \in DOMAIN rstore'[id] /\ rstore'[id][rfield] = rop'.v)]_vars

\* C15: while the level is OBJECTS from the start, a construction returns an
\* instance equal to the others of its id and, when a client holds an instance
\* whose field was assigned and flushed, a read of the field through another
\* client's instance of the same id returns the new value without a fetch
C15_OtherObservesFlush ==
    [][(cache = CACHE_OBJECTS /\ ~levelChanged) =>
        /\ rop'.op = "lookup" =>
              \A j \in Clients \ {rop'.k} :
                 (refs'[j] # 0 /\ IdOf(heap', refs'[j]) = IdOf(heap', refs'[rop'.k]))
                    => Nitrate_eq(heap'[refs'[j]], heap'[refs'[rop'.k]])
        /\ (/\ rop'.op = "read"
            /\ ~raised'
            /\ rfield \in ReadWrite(rtype)
            /\ \E k \in Clients \ {rop'.k} :
                  /\ refs[k] # 0
                  /\ IdOf(heap, refs[k]) = IdOf(heap, refs[rop'.k])
                  /\ ~heap[refs[k]].modified
                  /\ rfield \in DOMAIN rstore[IdOf(heap, refs[k])]
                  /\ heap[refs[k]].fields[rfield] = rstore[IdOf(heap, refs[k])][rfield]
                  /\ heap[refs[k]].fields[rfield]
                        # StoreRecord(rtype, IdOf(heap, refs[k]))[rfield])
           => /\ rresult' = rstore[IdOf(heap, refs[rop'.k])][rfield]
              /\ NumCalls(calls', "get") = 0]_vars

\* C16: a construction by id issues no fetch, and every declared field of a
\* newly created instance is the sentinel
C16_LookupNeverFetches ==
    [][ConstructedById =>
        LET r == refs'[rop'.k]
            id == given'[rop'.k]
        IN /\ NumCalls(calls', "get") = 0
           /\ (registry'[id] # r \/ registry[id] = 0) =>
                 \A f \in Declared(rtype) \ {"id"} :
                    f \in DOMAIN heap'[r].fields /\ heap'[r].fields[f] = NitrateNone]_vars

\* C17: in a single thread the bulk call of a class returns a result at most
\* once, whatever the result
C17_BulkOnce == ~interleaved => bulkCalls <= 1

\* C18: when the first constructions of two clients interleave, the bulk call
\* of the class still returns a result only once
C18_BulkOnceInterleaved == (interleaved /\ DOMAIN rstore # {}) => bulkCalls <= 1

\* C19: after a construction made at level ALL of the class that fetches all
\* records, the dictionary holds a materialized instance for every record of
\* the store
C19_AllCachedAfterFirst ==
    [][(/\ Constructed
        /\ Prefetches(rtype)
        /\ cache = CACHE_ALL
        /\ ~interleaved')
       => \A i \in DOMAIN rstore :
             registry'[i] # 0 /\ Materialized(heap'[registry'[i]])]_vars

\* C20 as stated: once the bulk call has filled the dictionary, every later
\* construction by an id of the result returns the materialized cached
\* instance, and a read of it issues no remote call
C20_CachedAfterBulk ==
    [][bulkCalls >= 1 =>
        /\ (rop'.op = "lookup" /\ IdOf(heap', refs'[rop'.k]) \in DOMAIN rstore) =>
              /\ refs'[rop'.k] = registry'[IdOf(heap', refs'[rop'.k])]
              /\ Materialized(heap'[refs'[rop'.k]])
        /\ (/\ rop'.op = "read"
            /\ IdOf(heap, refs[rop'.k]) \in DOMAIN rstore
            /\ refs[rop'.k] = registry[IdOf(heap, refs[rop'.k])]) =>
              calls' = <<>> /\ ~raised']_vars

\* C20 amended: the same for every later construction made at level OBJECTS
\* or ALL
C20_CachedAfterBulkAtObjects ==
    [][bulkCalls >= 1 =>
        /\ (/\ rop'.op = "lookup"
            /\ cache \in {CACHE_OBJECTS, CACHE_ALL}
            /\ IdOf(heap', refs'[rop'.k]) \in DOMAIN rstore) =>
              /\ refs'[rop'.k] = registry'[IdOf(heap', refs'[rop'.k])]
              /\ Materialized(heap'[refs'[rop'.k]])
        /\ (/\ rop'.op = "read"
            /\ IdOf(heap, refs[rop'.k]) \in DOMAIN rstore
            /\ refs[rop'.k] = registry[IdOf(heap, refs[rop'.k])]) =>
              calls' = <<>> /\ ~raised']_vars

\* After the bulk call a client has constructed an id of the result and read
\* the field of the cached instance without a remote call
C20_Witness ==
    /\ bulkCalls >= 1
    /\ rop.op = "read"
    /\ refs[rop.k] # 0
    /\ IdOf(heap, refs[rop.k]) \in DOMAIN rstore
    /\ refs[rop.k] = registry[IdOf(heap, refs[rop.k])]
    /\ calls = <<>>
    /\ rresult # NitrateNone

\* C21: an id the dictionary holds stays in the dictionary, and a client that
\* holds the instance cached for an id still holds the cached instance of the
\* id after every step that leaves it its reference
C21_NeverReplaced ==
    [][\A i \in Ids :
          /\ registry[i] # 0 => registry'[i] # 0
          /\ \A k \in Clients :
                (refs[k] # 0 /\ refs[k] = registry[i] /\ refs'[k] # 0)
                   => refs'[k] = registry'[i]]_vars

\* C28: setCacheLevel issues no remote call and leaves every instance, its
\* fields and dirty flag, the dictionary, the store and the container sets as
\* they were
C28_LevelNotRetroactive ==
    [][(cache' # cache \/ rop'.op = "setCacheLevel")
        => /\ calls' = <<>>
           /\ ~raised'
           /\ UNCHANGED <<heap, registry, refs, rstore>>
           /\ UNCHANGED <<current, original, cmodified, server>>
           /\ UNCHANGED <<fields, modified, store>>]_vars

\* The level was lowered to NONE while a client holds an instance with
\* buffered changes: the instance is still dirty
C28_Witness ==
    /\ rop.op = "setCacheLevel"
    /\ cache = CACHE_NONE
    /\ levelChanged
    /\ \E k \in Clients :
          /\ refs[k] # 0
          /\ heap[refs[k]].modified
          /\ heap[refs[k]].fields[rfield] # RRecord(IdOf(heap, refs[k]))[rfield]

-----------------------------------------------------------------------------
(* Claims about the construction of new records *)

\* The requests the constructors are to refuse
Malformed(type, args) ==
    CASE type = "TestPlan" -> ~({"name", "type", "product"} \subseteq args)
      [] type = "TestRun" -> ~("testplan" \in args)
      [] type = "TestCase" -> ~({"summary", "category", "product"} \subseteq args)

NothingCreated == maker.error # "none" /\ ~maker.issued /\ maker.created = 0

\* C30 as stated: a malformed construction request fails with the error of a
\* missing argument, no create call is issued and no record is created
C30_MalformedRefused ==
    (maker.done /\ Malformed(maker.type, maker.given))
       => (maker.error = "Required" /\ NothingCreated)

\* C30: a malformed construction request fails, no create call is issued and no
\* record is created; the error is that of the missing argument unless the
\* request is a test case with summary and product but no category, whose
\* product is looked up before the category is tested: then a failure of the
\* lookup is the error
C30_MalformedCreatesNothing ==
    (maker.done /\ Malformed(maker.type, maker.given))
       => /\ NothingCreated
          /\ maker.error # "Required"
                => /\ maker.type = "TestCase"
                   /\ {"summary", "product"} \subseteq maker.given
                   /\ maker.error \in {"CannotFind", "Fault"}
                   /\ Len(calls) <= 1

C30_Witness ==
    /\ maker.done
    /\ maker.type = "TestCase"
    /\ maker.given = {"summary", "product"}
    /\ maker.error = "Required"
    /\ Len(calls) = 1
    /\ raised

-----------------------------------------------------------------------------
(* Claims about a fetch the store has no record for *)

\* Client k reads a field that is the sentinel, of an instance whose id the
\* store has no record for
ReadOfMissing(k) ==
    /\ refs[k] # 0
    /\ heap[refs[k]].fields["id"] # NitrateNone
    /\ heap[refs[k]].fields["id"] \notin DOMAIN rstore
    /\ rfield \in DOMAIN heap[refs[k]].fields
    /\ heap[refs[k]].fields[rfield] = NitrateNone

-----------------------------------------------------------------------------
(* Claims about an owner and its containers *)

IsPrefix(p, q) == Len(p) <= Len(q) /\ \A i \in DOMAIN p : p[i] = q[i]

\* The update() calls one flush of the owner makes when nothing raises
FullFlush == (IF owner.fetched THEN OwnerContainers(otype) ELSE <<>>) \o <<"self">>

CallsOf(cs, c) == {i \in DOMAIN cs : cs[i].of = c}

SomethingDirty == owner.modified \/ \E c \in Owned(otype) : owned[c].modified

\* C22 as stated: the discard of an owner never raises; it makes a flush
\* attempt, which issues remote calls only if something is dirty
C22_DiscardFlushesQuietly ==
    [][oop'.op = "discard"
         => /\ ~raised'
            /\ SomethingDirty => oop'.flushed # <<>>
            /\ ~SomethingDirty => calls' = <<>>]_vars

\* The discard of an owner never raises, whatever its flush does
C22_DiscardNeverRaises == [][oop'.op = "discard" => ~raised']_vars

\* C23: one update() of an owner calls update() of each container that exists
\* once, in order, and then its own; it stops at the first that raises. The
\* remote calls of the containers precede the owner's own update call, a
\* container that is not modified issues none and no container is loaded
C23_ContainersThenSelf ==
    [][oop'.op = "update"
         => /\ IsPrefix(oop'.flushed, FullFlush)
            /\ ~raised' => oop'.flushed = FullFlush
            /\ \A i, j \in DOMAIN calls' :
                  (calls'[i].of # "self" /\ calls'[j].of = "self") => i < j
            /\ Cardinality(CallsOf(calls', "self")) <= 1
            /\ \A c \in Owned(otype) :
                  /\ ~owned[c].modified => CallsOf(calls', c) = {}
                  /\ owned'[c].current = owned[c].current
            /\ \A i \in DOMAIN calls' :
                  calls'[i].of # "self" => calls'[i].m \in {"add", "remove"}]_vars

\* An update() of a test plan has flushed both containers and then the plan
C23_Witness ==
    /\ oop.op = "update"
    /\ otype = "TestPlan"
    /\ ~raised
    /\ oop.flushed = <<"tags", "testcases", "self">>
    /\ Len(calls) = 3
    /\ calls[1].of = "tags"
    /\ calls[2].of = "testcases"
    /\ calls[3] = OCall("self", Call("update", {}, TRUE))

\* The tags a newly constructed owner of the same id loads from the store
Reloaded(srv) == Container_get(ContainerClass(otype, "tags"), srv, TRUE, TRUE).current

TagsChanged(op) == oop.op = op /\ oop.c = "tags" /\ ~raised

\* tag t is not a member of the tags of the owner
NotMember(t) ==
    IF owner.fetched /\ owned["tags"].current # Unloaded
    THEN t \notin owned["tags"].current
    ELSE t \notin ostore["tags"]

\* C26 as stated: after tags.add(t) and a successful update() a newly
\* constructed owner's tags contain t, after tags.remove(t) and a successful
\* update() they do not, and the removal of a tag that is not a member issues
\* no remote call
C26_TagsRoundTrip ==
    [][/\ (TagsChanged("add") /\ oop'.op = "update" /\ ~raised')
            => oop.items \subseteq Reloaded(ostore'["tags"])
       /\ (TagsChanged("remove") /\ oop'.op = "update" /\ ~raised')
            => oop.items \cap Reloaded(ostore'["tags"]) = {}
       /\ (oop'.op = "remove" /\ oop'.c = "tags"
             /\ \A t \in oop'.items : NotMember(t))
            => calls' = <<>>]_vars

\* The round trip holds whenever the working set of the tags differs from what
\* the store was last told only while the tags are marked modified, and the
\* removal of a tag that is not a member issues no call but the loading ones
C26_RoundTripWhenConsistent ==
    [][/\ (TagsChanged("add") /\ oop'.op = "update" /\ ~raised'
             /\ (owned["tags"].modified \/ owned["tags"].current = owned["tags"].original))
            => oop.items \subseteq Reloaded(ostore'["tags"])
       /\ (TagsChanged("remove") /\ oop'.op = "update" /\ ~raised'
             /\ (owned["tags"].modified \/ owned["tags"].current = owned["tags"].original))
            => oop.items \cap Reloaded(ostore'["tags"]) = {}
       /\ (oop'.op = "remove" /\ oop'.c = "tags"
             /\ \A t \in oop'.items : NotMember(t))
            => \A i \in DOMAIN calls' : calls'[i].m = "get"]_vars

-----------------------------------------------------------------------------
(* Claims about a flush or a push of an entity that fails *)

UpdateFailed(cs) == \E i \in DOMAIN cs : cs[i].m = "update" /\ ~cs[i].ok

\* Every field _update reads is populated
UpdateReadsKnown ==
    \A a \in UpdateSends(etype) : a \in DOMAIN fields /\ fields[a] # NitrateNone

\* C33 as stated: at the buffered levels a flush whose remote update call
\* fails raises, leaves the entity modified and its fields and the store as
\* they were; modified is cleared only by a flush whose update call returned
C33_FailedFlushKeepsState ==
    [][/\ (eop'.op = "update" /\ cache \in BufferedLevels /\ modified
             /\ UpdateFailed(calls'))
          => (raised' /\ modified' /\ fields' = fields /\ store' = store)
       /\ (cache \in BufferedLevels /\ modified /\ ~modified')
          => (eop'.op = "update" /\ ~raised' /\ calls' # <<>>
                /\ calls'[Len(calls')] = Call("update", {}, TRUE))]_vars

\* The same holds of every entity whose fetch has populated the fields that
\* _update reads
C33_FailedFlushKeepsStateWhenKnown ==
    [][(eop'.op = "update" /\ cache \in BufferedLevels /\ modified
             /\ UpdateFailed(calls') /\ UpdateReadsKnown)
          => (raised' /\ modified' /\ fields' = fields /\ store' = store)]_vars

-----------------------------------------------------------------------------
(* Claims about the round trip of a field through the store *)

\* What a newly constructed entity of the same id reads for field f
FreshRead(st, f) == Getter(etype, InitFields(etype), st, f, "ok").result

\* What the fetch of a newly constructed entity assigns to field f
FreshFetch(st, f) ==
    LET g == Entity_get(etype, InitFields(etype), st, "ok")
    IN IF f \in DOMAIN g.fields THEN g.fields[f] ELSE NitrateNone

\* A write at a buffered level has returned and the update() after it returns
WriteThenFlush ==
    /\ eop.op = "write"
    /\ ~raised
    /\ cache \in BufferedLevels
    /\ eop'.op = "update"
    /\ ~raised'

\* C31 as stated: after a write of v to a field at a buffered level and a
\* successful update() a newly constructed entity of the same id reads v for
\* that field
C31_WriteRoundTrip ==
    [][WriteThenFlush => FreshRead(store', eop.f) = eop.v]_vars

\* The round trip holds for the fields _update sends, of an entity that is
\* modified and whose fetch populated the fields _update reads
C31_RoundTripOfSentFields ==
    [][(WriteThenFlush /\ modified /\ UpdateReadsKnown /\ eop.f \in UpdateSends(etype))
          => FreshFetch(store', eop.f) = eop.v]_vars


\* C34: at level NONE a field write whose immediate update call fails either
\* leaves the field with the value the store holds or leaves the entity
\* modified
C34_FailedPushNotLost ==
    [][(eop'.op = "write" /\ cache = CACHE_NONE /\ UpdateFailed(calls'))
          => \/ modified'
             \/ /\ eop'.f \in DOMAIN store'
                /\ fields'[eop'.f] = store'[eop'.f]]_vars


\* C35: once an entity has been fetched and is modified, a read of a declared
\* field changes no field that holds a value
C35_ReadKeepsLocalChanges ==
    [][(eop'.op = "read" /\ fetched /\ modified)
          => \A a \in DOMAIN fields :
                fields[a] # NitrateNone => fields'[a] = fields[a]]_vars

\* A read of a modified, fetched entity changes no field unless one of its
\* fields is still the sentinel
C35_ReadKeepsWhenAllKnown ==
    [][(eop'.op = "read" /\ fetched /\ modified
          /\ \A a \in DOMAIN fields : fields[a] # NitrateNone)
          => fields' = fields]_vars


-----------------------------------------------------------------------------
(* Claims about the sentinels of a container *)

\* C36: in every state of a container the current set is the sentinel
\* exactly when the original set is, a failed load included, and a
\* modified container is loaded; the flush of a container that is not
\* loaded issues no call and leaves both sets at the sentinel
C36_SentinelsTogether ==
    /\ []( /\ (current = Unloaded) <=> (original = Unloaded)
           /\ cmodified => current # Unloaded )
    /\ [][(lastOp' = "update" /\ current = Unloaded)
            => (calls' = <<>> /\ ~raised' /\ current' = Unloaded /\ original' = Unloaded)]_vars

C36_Witness ==
    /\ lastOp = "update"
    /\ current = Unloaded
    /\ original = Unloaded
    /\ ~cmodified
    /\ calls = <<>>


-----------------------------------------------------------------------------
(* Claims about a flush of an owner in which a container raises *)

\* A call of a container of the owner failed
ContainerFailed(cs) == \E i \in DOMAIN cs : cs[i].of # "self" /\ ~cs[i].ok

\* C38: when the flush of a container raises during update() of its owner,
\* the error reaches the caller, the owner's own update call is not issued,
\* the containers later in the order issue no call and stay as they were,
\* and the modified flags of the owner and of the container that failed
\* stay as they were (the container's set)
C38_ContainerFailureStopsFlush ==
    [][(oop'.op = "update" /\ ContainerFailed(calls'))
         => LET n == Len(oop'.flushed)
                c == oop'.flushed[n]
                order == OwnerContainers(otype)
            IN /\ raised'
               /\ n >= 1
               /\ c # "self"
               /\ IsPrefix(oop'.flushed, order)
               /\ \A i \in DOMAIN calls' :
                     /\ calls'[i].of # "self"
                     /\ \E k \in 1 .. n : calls'[i].of = order[k]
               /\ \A k \in (n + 1) .. Len(order) :
                     /\ owned'[order[k]] = owned[order[k]]
                     /\ ostore'[order[k]] = ostore[order[k]]
               /\ owner' = owner
               /\ owned[c].modified
               /\ owned'[c].modified
               /\ owned'[c].current = owned[c].current]_vars

C38_Witness ==
    /\ otype = "TestPlan"
    /\ oop.op = "update"
    /\ ContainerFailed(calls)
    /\ raised
    /\ oop.flushed = <<"tags">>
    /\ owner.modified
    /\ owned["tags"].modified
    /\ owned["testcases"].modified


-----------------------------------------------------------------------------
(* Claims about the caching level that is set *)

\* The variable CACHE holds the text of one of the four levels
Usable(e) == e.set /\ IsInt(e.text) /\ IntOf(e.text) \in Levels

\* C37 as stated: after every call of setCacheLevel, with an argument or
\* with the level taken from the variable CACHE, the level is one of 0..3;
\* an argument out of the range raises and leaves the level as it was; no
\* argument and no usable value of the variable select CACHE_OBJECTS
C37_LevelAlwaysDefined ==
    /\ [](cache \in Levels)
    /\ [][lvl'.op = "set" =>
            /\ (lvl'.arg # <<>> /\ lvl'.arg[1] \notin Levels) => (raised' /\ cache' = cache)
            /\ (lvl'.arg = <<>> /\ ~Usable(env)) => (~raised' /\ cache' = CACHE_OBJECTS)]_vars

\* What holds: a call with an argument of 0..3 selects that level, a call
\* with an argument out of the range raises and leaves the level as it was; a call without argument selects CACHE_OBJECTS when the
\* variable is not set or is not the text of an integer, and otherwise the
\* integer, whatever it is
C37_ArgumentChecked ==
    [][lvl'.op = "set" =>
         /\ (lvl'.arg # <<>> /\ lvl'.arg[1] \in Levels) => (~raised' /\ cache' = lvl'.arg[1])
         /\ (lvl'.arg # <<>> /\ lvl'.arg[1] \notin Levels) => (raised' /\ cache' = cache)
         /\ (lvl'.arg = <<>> /\ ~(env.set /\ IsInt(env.text))) => (~raised' /\ cache' = CACHE_OBJECTS)
         /\ (lvl'.arg = <<>> /\ env.set /\ IsInt(env.text)) => (~raised' /\ cache' = IntOf(env.text))]_vars

-----------------------------------------------------------------------------
(* Claims about the comparison of entities of different classes *)

\* C40 as stated: two entities of different classes never compare equal,
\* and the assignment of an entity of another class than the one the field
\* holds is a change: the value is stored, and the instance is marked
\* modified or the update call is issued
C40_TypeAwareEquality ==
    [][(IsNitrate(asg.cur) /\ IsNitrate(asg'.val) /\ asg.cur.class # asg'.val.class) =>
         /\ asg'.op = "eq" => ~asg'.res
         /\ asg'.op = "write" => /\ asg'.res
                                 /\ asg'.cur = asg'.val
                                 /\ asg'.modified \/ calls' # <<>>]_vars

\* What holds: the comparison of two entities looks at the ids alone, and an
\* assignment is a change exactly when the ids differ
C40_EqualityById ==
    [][(IsNitrate(asg.cur) /\ IsNitrate(asg'.val)) =>
         LET differ == asg.cur.fields["id"] # asg'.val.fields["id"]
         IN /\ asg'.op = "eq" => (asg'.res <=> ~differ)
            /\ asg'.op = "write" => /\ asg'.res <=> differ
                                    /\ asg'.cur = IF differ THEN asg'.val ELSE asg.cur
                                    /\ differ => (asg'.modified \/ calls' # <<>>)]_vars


-----------------------------------------------------------------------------
(* Claims about the enumerations *)

\* The ids each class documents
Documented(class) ==
    CASE class = "PlanType" -> (1 .. 28) \ {12}
      [] class = "Priority" -> 1 .. 5
      [] class = "PlanStatus" -> 0 .. 1
      [] class = "RunStatus" -> 0 .. 1
      [] class = "CaseStatus" -> 1 .. 4
      [] class = "Status" -> 1 .. 8

\* C32 as stated: a value outside the documented domain, given as an id or
\* as a name, is refused with NitrateError: a value that has been constructed
\* has an id of the documented range of its class
C32_OnlyDocumentedValues == enm.made => enm.id \in Documented(enm.class)

\* What holds: an id given as an integer is taken if it is of the documented
\* range and refused otherwise, and a name that is not in the list of the
\* class is refused; a name of the list gives its index, the placeholder at
\* index 0 and the one at 12 of the plan types included
C32_IdsChecked ==
    /\ (enm.made /\ enm.arg.kind = "int") => (enm.id = enm.arg.n /\ enm.id \in Documented(enm.class))
    /\ (enm.arg.kind = "int" /\ enm.arg.n \notin Documented(enm.class)) => ~enm.made
    /\ (enm.made /\ enm.arg.kind = "name" /\ enm.class # "RunStatus")
          => (/\ enm.id + 1 \in DOMAIN Names(enm.class)
              /\ Names(enm.class)[enm.id + 1] = enm.arg.name)
    /\ (enm.arg.kind = "name" /\ enm.arg.name \in {"bogus", "p1", ""}) => ~enm.made

-----------------------------------------------------------------------------
(* Claims about the bug list *)

\* The bugs of the local list, by number
LocalBugs(b) == {b.current[i].bug : i \in DOMAIN b.current}

IsMember(b, n) == Bugs_contains(b.current, Bug_attach(n))

AttachOrDetach(cs) ==
    {i \in DOMAIN cs : cs[i].m \in {BugMethod(btype, "attach"), BugMethod(btype, "detach")}}

\* C39 as stated: the bug list applies changes at once at every level and
\* stays in step with the store: the add of a member and the remove of a bug
\* that is no member issue no attach or detach call and change nothing; when
\* the call fails the list is as before; after an add that succeeded the bug
\* is a member, after a remove that succeeded it is not; update() issues no
\* call; the loaded list holds the bugs the store holds
C39_BugsInStep ==
    /\ [](bugs.loaded => LocalBugs(bugs) = bstore)
    /\ [][/\ (bop'.op = "add" /\ bugs.loaded /\ IsMember(bugs, bop'.bug))
               => (calls' = <<>> /\ bugs' = bugs /\ bstore' = bstore)
          /\ (bop'.op = "remove" /\ bugs.loaded /\ ~IsMember(bugs, bop'.bug))
               => (calls' = <<>> /\ bugs' = bugs /\ bstore' = bstore)
          /\ (bop'.op \in {"add", "remove"} /\ raised')
               => (bstore' = bstore /\ (bugs.loaded => bugs' = bugs))
          /\ (bop'.op = "add" /\ ~raised') => (IsMember(bugs', bop'.bug) /\ bop'.bug \in bstore')
          /\ (bop'.op = "remove" /\ ~raised') => (~IsMember(bugs', bop'.bug) /\ bop'.bug \notin bstore')
          /\ (bop'.op \in {"add", "remove"} /\ ~raised' /\ AttachOrDetach(calls') # {})
               => bstore' # bstore
          /\ bop'.op = "update" => (calls' = <<>> /\ bstore' = bstore)]_vars

\* What holds whatever the store does: the same without the two statements
\* about the store
C39_BugsLocally ==
    [][/\ (bop'.op = "add" /\ bugs.loaded /\ IsMember(bugs, bop'.bug))
            => (calls' = <<>> /\ bugs' = bugs /\ bstore' = bstore)
       /\ (bop'.op = "remove" /\ bugs.loaded /\ ~IsMember(bugs, bop'.bug))
            => (calls' = <<>> /\ bugs' = bugs /\ bstore' = bstore)
       /\ (bop'.op \in {"add", "remove"} /\ raised')
            => (bstore' = bstore /\ (bugs.loaded => bugs' = bugs))
       /\ (bop'.op = "add" /\ ~raised') => (IsMember(bugs', bop'.bug) /\ bop'.bug \in bstore')
       /\ (bop'.op = "remove" /\ ~raised') => ~IsMember(bugs', bop'.bug)
       /\ (bop'.op \in {"add", "remove"} /\ AttachOrDetach(calls') # {})
            => Cardinality(AttachOrDetach(calls')) = 1
       /\ bop'.op = "update" => (calls' = <<>> /\ bstore' = bstore)]_vars

=============================================================================
